---- MODULE Spec2Model ----
(***************************************************************************)
(* Server-side authentication / authorization layer of the bulletin board: *)
(* credential extraction, token verification, access-mode resolution,      *)
(* ownership guard, error mapping, and the /posts request handlers built   *)
(* on them.  One request is received and handled per behaviour; every      *)
(* action is one segment of a handler between two awaits on the store.     *)
(***************************************************************************)
EXTENDS Integers, Sequences, FiniteSets, TLC

(***************************************************************************)
(* Values                                                                  *)
(***************************************************************************)

\* null / undefined for scalar (string-valued) slots
Null == "<null>"

\* optional text (a text is a sequence of atoms); None is undefined
None == [some |-> FALSE, val |-> <<>>]

Some(x) == [some |-> TRUE, val |-> x]

\* JavaScript truthiness of a scalar string slot: null, undefined and ""
\* are falsy
Truthy(v) == v # Null /\ v # ""

\* JavaScript truthiness of an optional text
TruthyText(o) == o.some /\ o.val # <<>>

\* the four members of RequestAuthMode
allowedAuthModes == {"userPool", "identityPool", "iam", "apiKey"}

\* requested modes a caller can send: absent, empty, the enum, junk
RequestedModes == {Null, ""} \cup allowedAuthModes \cup {"bogus"}

\* defaultAuthMode option: undefined, the enum, junk
DefaultModes == {Null} \cup allowedAuthModes \cup {"bogus"}

\* subjects of the identity provider
Subjects == {"u1", "u2"}

\* values a verified payload can carry in `sub`: absent, empty, a subject,
\* or a value that is not a string
NonStringSub == "#42"

SubValues == {Null, ""} \cup Subjects \cup {NonStringSub}

\* a typeof check that every value passes
IsString_Any(v) == TRUE

\* typeof v === 'string'
IsString(v) == v # Null /\ v # NonStringSub

\* owner values a stored record can carry
Owners == {Null, ""} \cup Subjects

\* bearer tokens: access tokens of u1/u2, an id token of u1, an expired
\* token, and tokens whose payload has no usable subject
Tokens == {"tAcc1", "tAcc2", "tId1", "tExpired", "tNoSub", "tEmptySub", "tNumSub"}

\* cognitoConfig and the AppSync endpoint of amplify_outputs.json: TRUE when
\* the value is present (truthy)
Configs ==
  [userPoolId : BOOLEAN, clientId : BOOLEAN, region : BOOLEAN,
   graphqlEndpoint : BOOLEAN]

(***************************************************************************)
(* Credential extractor                                                    *)
(***************************************************************************)

SP == " "

\* String.prototype.toLowerCase on the scheme words of the model
ToLowerCase(a) ==
  CASE a \in {"Bearer", "bearer", "BEARER"} -> "bearer"
    [] a = "Token" -> "token"
    [] OTHER -> a

RECURSIVE SplitFrom(_, _)
\* pieces of a text between spaces; cur is the piece being read
SplitFrom(h, cur) ==
  IF h = <<>> THEN <<cur>>
  ELSE IF Head(h) = SP THEN <<cur>> \o SplitFrom(Tail(h), "")
  ELSE SplitFrom(Tail(h), Head(h))

\* header.split(' ')
Split(h) == SplitFrom(h, "")

\* element i of an array, undefined (Null) past its end
At(s, i) == IF i <= Len(s) THEN s[i] ELSE Null

\* extractBearerToken that takes the value of any scheme
extractBearerToken_AnyScheme(header) ==
  IF ~TruthyText(header) THEN Null
  ELSE LET parts == Split(header.val)
           type == At(parts, 1)
           token == At(parts, 2)
       IN IF type = Null \/ ~Truthy(token) THEN Null ELSE token

\* extractBearerToken that compares the scheme as it is written
extractBearerToken_CaseSensitive(header) ==
  IF ~TruthyText(header) THEN Null
  ELSE LET parts == Split(header.val)
           type == At(parts, 1)
           token == At(parts, 2)
       IN IF type = Null \/ type # "Bearer" \/ ~Truthy(token)
          THEN Null
          ELSE token

\* extractBearerToken: the token or Null
extractBearerToken(header) ==
  IF ~TruthyText(header) THEN Null
  ELSE LET parts == Split(header.val)
           type == At(parts, 1)
           token == At(parts, 2)
       IN IF type = Null \/ ToLowerCase(type) # "bearer" \/ ~Truthy(token)
          THEN Null
          ELSE token

\* Authorization headers a client can send
Headers ==
  {None, Some(<<>>)}
  \cup {Some(<<"Bearer", SP, t>>) : t \in Tokens}
  \cup {Some(<<"bearer", SP, "tAcc1">>),
        Some(<<"Token", SP, "xyz">>),
        Some(<<"Bearer">>),
        Some(<<"Bearer", SP>>),
        Some(<<"Bearer", SP, SP, "tAcc1">>),
        Some(<<"Bearer", SP, "tAcc1", SP, "zz">>),
        Some(<<SP, "tAcc1">>)}

(***************************************************************************)
(* Token verifier                                                          *)
(***************************************************************************)

\* result of one verifier: accepted with the payload's sub, or rejected
Accept(sub) == [ok |-> TRUE, sub |-> sub]

Reject == [ok |-> FALSE, sub |-> Null]

\* cachedAccessVerifier.verify(token): the issuer's access-use verifier
AccessVerify(token) ==
  CASE token = "tAcc1" -> Accept("u1")
    [] token = "tAcc2" -> Accept("u2")
    [] token = "tNoSub" -> Accept(Null)
    [] token = "tEmptySub" -> Accept("")
    [] token = "tNumSub" -> Accept(NonStringSub)
    [] OTHER -> Reject

\* cachedIdVerifier.verify(token): the issuer's id-use verifier
IdVerify(token) ==
  CASE token = "tId1" -> Accept("u1")
    [] OTHER -> Reject

\* an error created by createError
Err(code, message) == [statusCode |-> code, statusMessage |-> message]

NoErr == Err(0, <<>>)

\* ensureConfig that checks the user pool id only
getCognitoConfig_PoolOnly(cfg) ==
  IF ~cfg.userPoolId
  THEN Err(500, <<"Cognito configuration is missing">>)
  ELSE NoErr

\* ensureConfig / getCognitoConfig: the error thrown, or NoErr
getCognitoConfig(cfg) ==
  IF ~cfg.userPoolId \/ ~cfg.clientId
  THEN Err(500, <<"Cognito configuration is missing">>)
  ELSE NoErr

\* verifyToken that decodes the payload and invokes no verifier
verifyToken_DecodeOnly(token, cfg) ==
  [err |-> NoErr, sub |-> "u1", attempts |-> <<>>]

\* verifyToken that returns the payload of the id verifier's attempt even
\* when that attempt rejected the token
verifyToken_AcceptRejected(token, cfg) ==
  IF getCognitoConfig(cfg) # NoErr
  THEN [err |-> getCognitoConfig(cfg), sub |-> Null, attempts |-> <<>>]
  ELSE IF AccessVerify(token).ok
  THEN [err |-> NoErr, sub |-> AccessVerify(token).sub, attempts |-> <<"access">>]
  ELSE [err |-> NoErr, sub |-> "u1", attempts |-> <<"access", "id">>]

\* verifyToken that tries the id-use verifier before the access-use one
verifyToken_IdFirst(token, cfg) ==
  IF getCognitoConfig(cfg) # NoErr
  THEN [err |-> getCognitoConfig(cfg), sub |-> Null, attempts |-> <<>>]
  ELSE IF IdVerify(token).ok
  THEN [err |-> NoErr, sub |-> IdVerify(token).sub, attempts |-> <<"id">>]
  ELSE IF AccessVerify(token).ok
  THEN [err |-> NoErr, sub |-> AccessVerify(token).sub, attempts |-> <<"id", "access">>]
  ELSE [err |-> Err(401, <<"Invalid or expired token">>), sub |-> Null,
        attempts |-> <<"id", "access">>]

\* verifyToken: err is the error thrown (NoErr when a payload is
\* returned), sub the payload's sub, attempts the verifiers invoked in order
verifyToken(token, cfg) ==
  IF getCognitoConfig(cfg) # NoErr
  THEN [err |-> getCognitoConfig(cfg), sub |-> Null, attempts |-> <<>>]
  ELSE IF AccessVerify(token).ok
  THEN [err |-> NoErr, sub |-> AccessVerify(token).sub, attempts |-> <<"access">>]
  ELSE IF IdVerify(token).ok
  THEN [err |-> NoErr, sub |-> IdVerify(token).sub, attempts |-> <<"access", "id">>]
  ELSE [err |-> Err(401, <<"Invalid or expired token">>), sub |-> Null,
        attempts |-> <<"access", "id">>]

(***************************************************************************)
(* Access-mode resolver                                                    *)
(***************************************************************************)

\* toClientAuthMode that maps nothing
toClientAuthMode_Identity(mode) == mode

\* toClientAuthMode
toClientAuthMode(mode) ==
  IF mode = "identityPool" \/ mode = "iam" THEN "iam" ELSE mode

\* assertSupportedAuthMode that admits every mode
assertSupportedAuthMode_Lenient(mode) == NoErr

\* assertSupportedAuthMode: the error thrown, or NoErr
assertSupportedAuthMode(mode) ==
  IF ~Truthy(mode) THEN NoErr
  ELSE IF mode \notin allowedAuthModes
  THEN Err(400, <<"Unsupported auth mode">>)
  ELSE NoErr

\* a ResolvedServerAuth, or the error thrown; attempts are the verifiers
\* invoked on the way
AuthFail(e, attempts) ==
  [err |-> e, authMode |-> Null, amplifyAuthMode |-> Null,
   authToken |-> Null, userSub |-> Null, attempts |-> attempts]

AuthOk(mode, token, sub, attempts) ==
  [err |-> NoErr, authMode |-> mode, amplifyAuthMode |-> toClientAuthMode(mode),
   authToken |-> token, userSub |-> sub, attempts |-> attempts]

\* shouldUseUserPool without the case of an absent requested mode
shouldUseUserPool_NotWhenAbsent(requireToken, requestedAuthMode) ==
  requireToken \/ requestedAuthMode = "userPool"

\* shouldUseUserPool: a present token is verified and the mode escalates
shouldUseUserPool(requireToken, requestedAuthMode) ==
  requireToken \/ ~Truthy(requestedAuthMode) \/ requestedAuthMode = "userPool"

\* the missing-token condition without the case of a requested userPool
tokenRequired_RequireOnly(requireToken, requestedAuthMode) == requireToken

\* the condition under which a missing token is an error
tokenRequired(requireToken, requestedAuthMode) ==
  requireToken \/ requestedAuthMode = "userPool"

\* authToken set to the token whether or not the token was verified
authTokenWhen_Always(escalated, token) == token

\* let authToken (undefined); authToken = token only in the branch that
\* verified the token
authTokenWhen(escalated, token) == IF escalated THEN token ELSE Null

\* the default step with the built-in default instead of the supplied one
withDefault_BuiltIn(resolvedAuthMode, defaultAuthMode) ==
  IF ~Truthy(resolvedAuthMode) THEN "identityPool" ELSE resolvedAuthMode

\* if (!resolvedAuthMode) resolvedAuthMode = defaultAuthMode
withDefault(resolvedAuthMode, defaultAuthMode) ==
  IF ~Truthy(resolvedAuthMode) THEN defaultAuthMode ELSE resolvedAuthMode

\* resolveServerAuth(event, {requestedAuthMode, requireToken, defaultAuthMode});
\* an undefined defaultAuthMode (Null) takes the default 'identityPool'
resolveServerAuth(header, requestedAuthMode, requireToken, defaultOpt, cfg) ==
  LET defaultAuthMode == IF defaultOpt = Null THEN "identityPool" ELSE defaultOpt
      token == extractBearerToken(header)
      escalated == token # Null /\ shouldUseUserPool(requireToken, requestedAuthMode)
      v == verifyToken(token, cfg)
      userSub == IF IsString(v.sub) THEN v.sub ELSE Null
      resolved == withDefault(IF escalated THEN "userPool" ELSE requestedAuthMode,
                              defaultAuthMode)
      attempts == IF escalated THEN v.attempts ELSE <<>>
  IN
  IF assertSupportedAuthMode(requestedAuthMode) # NoErr
  THEN AuthFail(assertSupportedAuthMode(requestedAuthMode), <<>>)
  ELSE IF escalated /\ getCognitoConfig(cfg) # NoErr
  THEN AuthFail(getCognitoConfig(cfg), <<>>)
  ELSE IF escalated /\ v.err # NoErr
  THEN AuthFail(v.err, attempts)
  ELSE IF escalated /\ ~Truthy(userSub)
  THEN AuthFail(Err(401, <<"Token subject is missing">>), attempts)
  ELSE IF token = Null /\ tokenRequired(requireToken, requestedAuthMode)
  THEN AuthFail(Err(401, <<"Missing bearer token">>), attempts)
  ELSE IF assertSupportedAuthMode(resolved) # NoErr
  THEN AuthFail(assertSupportedAuthMode(resolved), attempts)
  ELSE AuthOk(resolved,
              authTokenWhen(escalated, token),
              IF escalated THEN userSub ELSE Null,
              attempts)

(***************************************************************************)
(* Ownership guard                                                         *)
(***************************************************************************)

\* assertOwnership with the two checks in the other order
\* assertOwnership that asks for a subject only
assertOwnership_SubjectOnly(owner, userSub) ==
  IF ~Truthy(userSub) THEN Err(401, <<"Unauthorized">>) ELSE NoErr

assertOwnership_OwnerFirst(owner, userSub) ==
  IF Truthy(owner) /\ owner # userSub THEN Err(403, <<"Forbidden">>)
  ELSE IF ~Truthy(userSub) THEN Err(401, <<"Unauthorized">>)
  ELSE NoErr

\* assertOwnership: the error thrown, or NoErr when the operation is
\* permitted
assertOwnership(owner, userSub) ==
  IF ~Truthy(userSub) THEN Err(401, <<"Unauthorized">>)
  ELSE IF Truthy(owner) /\ owner # userSub THEN Err(403, <<"Forbidden">>)
  ELSE NoErr

(***************************************************************************)
(* Error mapper                                                            *)
(***************************************************************************)

\* the pattern phrases (lower case) that occur in a message atom; this is
\* the substring relation of the case-insensitive regular expressions
PhrasesIn(atom) ==
  CASE atom = "Unauthorized" -> {"unauthorized"}
    [] atom = "Forbidden" -> {"forbidden"}
    [] atom = "Not Authorized to access Post" -> {"not authorized"}
    [] atom = "No current user" -> {"no current user"}
    [] atom = "No federated jwt" -> {"no federated jwt"}
    [] atom = "Missing bearer token" -> {"missing bearer token"}
    [] atom = "Token subject is missing" -> {"token subject is missing"}
    [] atom = "Invalid or expired token" -> {"invalid or expired token"}
    [] atom = "Unauthorized: no current user" -> {"unauthorized", "no current user"}
    [] OTHER -> {}

\* pattern.test(message) for a pattern that is an alternation of phrases
Test(phrases, message) ==
  \E i \in 1..Len(message) : PhrasesIn(message[i]) \cap phrases # {}

unauthorizedPattern ==
  {"missing bearer token", "no current user", "no federated jwt",
   "token subject is missing", "invalid or expired token"}

forbiddenPattern == {"not authorized", "unauthorized", "forbidden"}

RECURSIVE JoinTruthy(_)
\* entries.map(e => e.message).filter(Boolean).join('; ')
JoinTruthy(entries) ==
  IF entries = <<>> THEN <<>>
  ELSE LET m == Head(entries).message
           rest == JoinTruthy(Tail(entries))
       IN IF ~TruthyText(m) THEN rest
          ELSE IF rest = <<>> THEN m.val
          ELSE m.val \o <<"; ">> \o rest

\* collectErrors: undefined when the response has no errors list
collectErrors(response) ==
  IF ~response.errors.some THEN None ELSE Some(JoinTruthy(response.errors.val))

\* toHttpError that answers an unmatched message with that message under
\* the fallback's status instead of the fallback
toHttpError_EchoMessage(message, fallback) ==
  IF ~TruthyText(message) THEN fallback
  ELSE IF Test(unauthorizedPattern, message.val) THEN Err(401, <<"Unauthorized">>)
  ELSE IF Test(forbiddenPattern, message.val) THEN Err(403, <<"Forbidden">>)
  ELSE Err(fallback.statusCode, message.val)

\* toHttpError that tests the forbidden pattern before the unauthorized one
toHttpError_ForbiddenFirst(message, fallback) ==
  IF ~TruthyText(message) THEN fallback
  ELSE IF Test(forbiddenPattern, message.val) THEN Err(403, <<"Forbidden">>)
  ELSE IF Test(unauthorizedPattern, message.val) THEN Err(401, <<"Unauthorized">>)
  ELSE fallback

\* toHttpError(message, fallback)
toHttpError(message, fallback) ==
  IF ~TruthyText(message) THEN fallback
  ELSE IF Test(unauthorizedPattern, message.val) THEN Err(401, <<"Unauthorized">>)
  ELSE IF Test(forbiddenPattern, message.val) THEN Err(403, <<"Forbidden">>)
  ELSE fallback

\* messages handed to toHttpError: undefined, empty, one phrase, several
\* phrases joined, or none
Messages ==
  {None, Some(<<>>)}
  \cup {Some(<<a>>) : a \in {"Unauthorized", "Forbidden", "Not Authorized to access Post",
                              "No current user", "No federated jwt",
                              "Missing bearer token", "Token subject is missing",
                              "Invalid or expired token",
                              "Unauthorized: no current user", "boom",
                              "Failed to load post"}}
  \cup {Some(<<"Not Authorized to access Post", "; ", "No current user">>),
        Some(<<"boom", "; ", "Forbidden">>)}

\* fallbacks the handlers hand to toHttpError
Fallbacks ==
  {Err(500, <<"Failed to load post">>), Err(500, <<"Failed to update post">>),
   Err(500, <<"Failed to delete post">>), Err(500, <<"Failed to create post">>)}

(***************************************************************************)
(* Record store (external): what a call can answer                         *)
(***************************************************************************)

\* longest errors list the store answers with
MaxErrors == 1

\* message of one error entry: missing, empty, or a text
EntryMessages ==
  {None, Some(<<>>), Some(<<"Not Authorized to access Post">>),
   Some(<<"No current user">>), Some(<<"boom">>)}

Entries == [message : EntryMessages]

\* errors of a response: undefined, or a list of entries
ErrorLists ==
  {None} \cup {Some(l) : l \in UNION {[1..n -> Entries] : n \in 0..MaxErrors}}

\* a stored record as the handlers use it
NoPost == [exists |-> FALSE, owner |-> Null]

Post(o) == [exists |-> TRUE, owner |-> o]

\* messages of errors thrown by the store client ('' for a non-Error)
ThrownMessages ==
  {<<>>, <<"Network error">>, <<"Unauthorized">>, <<"Unauthorized: no current user">>}

Throws == [kind : {"throw"}, msg : ThrownMessages, data : {NoPost}, errors : {None}]

\* outcomes of client.models.Post.get
GetOutcomes ==
  Throws \cup
  [kind : {"resp"}, msg : {<<>>}, data : {NoPost} \cup {Post(o) : o \in Owners},
   errors : ErrorLists]

\* outcomes of create / update / delete / list: data present or not
MutateOutcomes ==
  Throws \cup
  [kind : {"resp"}, msg : {<<>>}, data : {NoPost, Post("u1")}, errors : ErrorLists]

\* one call to the record store
Call(op, mode, token, fields) ==
  [op |-> op, authMode |-> mode, authToken |-> token, fields |-> fields]

(***************************************************************************)
(* Requests                                                                *)
(***************************************************************************)

\* handlers built on resolveServerAuth
ResolveKinds == {"postResolve", "putResolve", "deleteResolve"}

\* handlers that resolve the caller inline
InlineKinds == {"postInline", "putInline", "putAppSync", "deleteInline"}

GetKinds == {"getMapped", "getUnmapped"}

PutKinds == {"putResolve", "putInline", "putAppSync"}

DeleteKinds == {"deleteResolve", "deleteInline"}

PostKinds == {"postResolve", "postInline"}

\* GET /todos
TodoKinds == {"getTodos"}

HandlerKinds == ResolveKinds \cup InlineKinds \cup GetKinds \cup TodoKinds

\* a request: the Authorization header, whether the path carries an id,
\* whether the body's content / displayName pass validation, and the
\* authMode of the body (POST) or of the query (GET)
Request(kind, header, id, contentOk, authMode) ==
  [kind |-> kind, header |-> header, id |-> id, contentOk |-> contentOk,
   authMode |-> authMode, requireToken |-> FALSE, defaultAuthMode |-> Null,
   owner |-> Null, userSub |-> Null, token |-> Null, message |-> None,
   fallback |-> NoErr]

\* a direct call resolveServerAuth(event, options)
ResolveCall(header, requested, requireToken, defaultAuthMode) ==
  [Request("resolveServerAuth", header, FALSE, FALSE, requested)
     EXCEPT !.requireToken = requireToken, !.defaultAuthMode = defaultAuthMode]

\* a direct call assertOwnership(owner, userSub)
OwnershipCall(owner, userSub) ==
  [Request("assertOwnership", None, FALSE, FALSE, Null)
     EXCEPT !.owner = owner, !.userSub = userSub]

\* a direct call extractBearerToken(header)
ExtractCall(header) == Request("extractBearerToken", header, FALSE, FALSE, Null)

\* a direct call verifyToken(token)
VerifyCall(token) ==
  [Request("verifyToken", None, FALSE, FALSE, Null) EXCEPT !.token = token]

\* a direct call toHttpError(message, fallback)
HttpErrorCall(message, fallback) ==
  [Request("toHttpError", None, FALSE, FALSE, Null)
     EXCEPT !.message = message, !.fallback = fallback]

Requests ==
  {Request(k, h, id, c, Null) :
     k \in PutKinds, h \in Headers, id \in BOOLEAN, c \in BOOLEAN}
  \cup {Request(k, h, id, TRUE, Null) :
     k \in DeleteKinds, h \in Headers, id \in BOOLEAN}
  \cup {Request(k, h, TRUE, c, m) :
     k \in PostKinds, h \in Headers, c \in BOOLEAN, m \in RequestedModes}
  \cup {Request(k, h, TRUE, TRUE, m) :
     k \in GetKinds, h \in Headers, m \in RequestedModes}
  \cup {Request(k, h, TRUE, TRUE, Null) : k \in TodoKinds, h \in Headers}

NoRequest == Request("none", None, FALSE, FALSE, Null)

(***************************************************************************)
(* Handlers, first segment: validation and caller resolution               *)
(***************************************************************************)

\* the verify-and-require-subject sequence of the inline handlers:
\* token required, verifyToken, subject required; typeofCheck tells whether
\* the handler keeps payload.sub only when it is a string
InlineTokenAuth(header, cfg, typeofCheck) ==
  LET token == extractBearerToken(header)
      v == verifyToken(token, cfg)
      userSub == IF typeofCheck /\ ~IsString(v.sub) THEN Null ELSE v.sub
  IN
  IF token = Null
  THEN AuthFail(Err(401, <<"Missing bearer token">>), <<>>)
  ELSE IF v.err # NoErr THEN AuthFail(v.err, v.attempts)
  ELSE IF ~Truthy(userSub)
  THEN AuthFail(Err(401, <<"Token subject is missing">>), v.attempts)
  ELSE AuthOk("userPool", token, userSub, v.attempts)

\* PUT /posts/[id] on resolveServerAuth, up to the store get
\* the first segment of the PUT handler if it did not require a token
PutResolveBegin_TokenOptional(r, cfg) ==
  IF ~r.id THEN AuthFail(Err(400, <<"Post id is required">>), <<>>)
  ELSE IF ~r.contentOk THEN AuthFail(Err(400, <<"content is required">>), <<>>)
  ELSE resolveServerAuth(r.header, Null, FALSE, "userPool", cfg)

PutResolveBegin(r, cfg) ==
  IF ~r.id THEN AuthFail(Err(400, <<"Post id is required">>), <<>>)
  ELSE IF ~r.contentOk THEN AuthFail(Err(400, <<"content is required">>), <<>>)
  ELSE resolveServerAuth(r.header, Null, TRUE, "userPool", cfg)

\* DELETE /posts/[id] on resolveServerAuth, up to the store get
DeleteResolveBegin(r, cfg) ==
  IF ~r.id THEN AuthFail(Err(400, <<"Post id is required">>), <<>>)
  ELSE resolveServerAuth(r.header, Null, TRUE, "userPool", cfg)

\* POST /posts on resolveServerAuth, up to the store create; the body
\* schema admits an absent authMode or a member of the picklist
PostResolveBegin(r, cfg) ==
  IF ~r.contentOk THEN AuthFail(Err(400, <<"content is required">>), <<>>)
  ELSE IF r.authMode # Null /\ r.authMode \notin allowedAuthModes
  THEN AuthFail(Err(400, <<"Invalid request body">>), <<>>)
  ELSE resolveServerAuth(r.header, r.authMode, FALSE, "identityPool", cfg)

\* POST /posts, inline variant, up to the store create
\* the first segment of the inline POST handler if it resolved the caller
\* as resolveServerAuth does
PostInlineBegin_AsResolve(r, cfg) ==
  IF ~r.contentOk THEN AuthFail(Err(400, <<"content is required">>), <<>>)
  ELSE resolveServerAuth(r.header, r.authMode, FALSE, Null, cfg)

PostInlineBegin(r, cfg) ==
  LET rawAuthMode == r.authMode
      requestedAuthMode ==
        IF Truthy(rawAuthMode) /\ rawAuthMode \in allowedAuthModes
        THEN rawAuthMode ELSE Null
      token == extractBearerToken(r.header)
      v == verifyToken(token, cfg)
      userSub == IF IsString(v.sub) THEN v.sub ELSE Null
      resolved == IF requestedAuthMode = Null THEN "identityPool" ELSE requestedAuthMode
  IN
  IF ~r.contentOk THEN AuthFail(Err(400, <<"content is required">>), <<>>)
  ELSE IF Truthy(rawAuthMode) /\ requestedAuthMode = Null
  THEN AuthFail(Err(400, <<"Unsupported auth mode">>), <<>>)
  ELSE IF token # Null /\ getCognitoConfig(cfg) # NoErr
  THEN AuthFail(getCognitoConfig(cfg), <<>>)
  ELSE IF token # Null /\ v.err # NoErr THEN AuthFail(v.err, v.attempts)
  ELSE IF token # Null /\ ~Truthy(userSub)
  THEN AuthFail(Err(401, <<"Token subject is missing">>), v.attempts)
  ELSE IF token # Null THEN AuthOk("userPool", token, userSub, v.attempts)
  ELSE IF requestedAuthMode = "userPool"
  THEN AuthFail(Err(401, <<"Missing bearer token">>), <<>>)
  ELSE AuthOk(resolved, Null, Null, <<>>)

\* PUT /posts/[id], AppSync variant, up to the first callAppSync
PutAppSyncBegin(r, cfg) ==
  LET a == InlineTokenAuth(r.header, cfg, FALSE)
  IN
  IF ~cfg.userPoolId \/ ~cfg.clientId
  THEN AuthFail(Err(500, <<"Cognito configuration is missing">>), <<>>)
  ELSE IF ~cfg.graphqlEndpoint
  THEN AuthFail(Err(500, <<"AppSync endpoint is not configured">>), <<>>)
  ELSE IF a.err # NoErr THEN a
  ELSE IF ~r.id THEN AuthFail(Err(400, <<"Post id is required">>), a.attempts)
  ELSE IF ~r.contentOk THEN AuthFail(Err(400, <<"content is required">>), a.attempts)
  ELSE a

\* PUT /posts/[id], inline Amplify-client variant, up to the store get
PutInlineBegin(r, cfg) ==
  LET a == InlineTokenAuth(r.header, cfg, TRUE)
  IN
  IF ~cfg.userPoolId \/ ~cfg.clientId
  THEN AuthFail(Err(500, <<"Cognito configuration is missing">>), <<>>)
  ELSE IF ~cfg.graphqlEndpoint
  THEN AuthFail(Err(500, <<"AppSync endpoint is missing">>), <<>>)
  ELSE IF a.err # NoErr THEN a
  ELSE IF ~r.id THEN AuthFail(Err(400, <<"Post id is required">>), a.attempts)
  ELSE IF ~r.contentOk THEN AuthFail(Err(400, <<"content is required">>), a.attempts)
  ELSE a

\* DELETE /posts/[id], inline variant, up to the store get
DeleteInlineBegin(r, cfg) ==
  LET a == InlineTokenAuth(r.header, cfg, TRUE)
  IN
  IF getCognitoConfig(cfg) # NoErr THEN AuthFail(getCognitoConfig(cfg), <<>>)
  ELSE IF a.err # NoErr THEN a
  ELSE IF ~r.id THEN AuthFail(Err(400, <<"Post id is required">>), a.attempts)
  ELSE a

\* the inline resolution of the two GET /posts handlers, up to the store
\* list; the resolved mode is returned unmapped in authMode
\* the resolution of the GET handlers verifying every token that is present
GetResolve_AlwaysVerify(r, cfg) ==
  LET a == PostInlineBegin([r EXCEPT !.contentOk = TRUE], cfg)
  IN IF a.err # NoErr THEN a ELSE [a EXCEPT !.amplifyAuthMode = Null]

GetResolve(r, cfg) ==
  LET authModeParam == r.authMode
      hasExplicitAuthMode == Truthy(authModeParam)
      requestedAuthMode ==
        IF authModeParam \in allowedAuthModes THEN authModeParam ELSE Null
      token == extractBearerToken(r.header)
      verifying == requestedAuthMode = "userPool"
                   \/ (requestedAuthMode = Null /\ token # Null)
      v == verifyToken(token, cfg)
      userSub == IF IsString(v.sub) THEN v.sub ELSE Null
      resolved == IF requestedAuthMode = Null THEN "identityPool" ELSE requestedAuthMode
  IN
  IF hasExplicitAuthMode /\ requestedAuthMode = Null
  THEN AuthFail(Err(400, <<"Unsupported auth mode">>), <<>>)
  ELSE IF verifying /\ getCognitoConfig(cfg) # NoErr
  THEN AuthFail(getCognitoConfig(cfg), <<>>)
  ELSE IF verifying /\ token = Null
  THEN AuthFail(Err(401, <<"Missing bearer token">>), <<>>)
  ELSE IF verifying /\ v.err # NoErr THEN AuthFail(v.err, v.attempts)
  ELSE IF verifying /\ ~Truthy(userSub)
  THEN AuthFail(Err(401, <<"Token subject is missing">>), v.attempts)
  ELSE IF verifying
  THEN [AuthOk("userPool", token, userSub, v.attempts) EXCEPT !.amplifyAuthMode = Null]
  ELSE [AuthOk(resolved, Null, Null, <<>>) EXCEPT !.amplifyAuthMode = Null]

\* GET /posts, variant that maps identityPool to iam
GetMappedBegin(r, cfg) ==
  LET a == GetResolve(r, cfg)
  IN IF a.err # NoErr THEN a
     ELSE [a EXCEPT !.amplifyAuthMode =
             IF a.authMode = "identityPool" THEN "iam" ELSE a.authMode]

\* GET /posts, variant that hands the resolved mode to the store as it is
GetUnmappedBegin(r, cfg) ==
  LET a == GetResolve(r, cfg)
  IN IF a.err # NoErr THEN a ELSE [a EXCEPT !.amplifyAuthMode = a.authMode]

\* GET /todos, up to the store list: a bearer token is verified and makes
\* the mode userPool, its subject is not looked at; no token is identityPool
TodosBegin(r, cfg) ==
  LET bearer == extractBearerToken(r.header)
      v == verifyToken(bearer, cfg)
  IN
  IF bearer = Null
  THEN [AuthOk("identityPool", Null, Null, <<>>) EXCEPT !.amplifyAuthMode = "identityPool"]
  ELSE IF v.err # NoErr THEN AuthFail(v.err, v.attempts)
  ELSE AuthOk("userPool", bearer, Null, v.attempts)

\* first segment of the handler of a request
Begin(r, cfg) ==
  CASE r.kind = "putResolve" -> PutResolveBegin(r, cfg)
    [] r.kind = "deleteResolve" -> DeleteResolveBegin(r, cfg)
    [] r.kind = "postResolve" -> PostResolveBegin(r, cfg)
    [] r.kind = "postInline" -> PostInlineBegin(r, cfg)
    [] r.kind = "putAppSync" -> PutAppSyncBegin(r, cfg)
    [] r.kind = "putInline" -> PutInlineBegin(r, cfg)
    [] r.kind = "deleteInline" -> DeleteInlineBegin(r, cfg)
    [] r.kind = "getMapped" -> GetMappedBegin(r, cfg)
    [] r.kind = "getUnmapped" -> GetUnmappedBegin(r, cfg)
    [] r.kind = "getTodos" -> TodosBegin(r, cfg)

\* the auth mode and token a handler passes to the store
StoreArgs(kind, a) ==
  CASE kind \in {"putResolve", "deleteResolve"} ->
         [authMode |-> a.amplifyAuthMode,
          authToken |-> IF Truthy(a.authToken) THEN a.authToken ELSE Null]
    [] kind \in {"postResolve", "postInline", "getMapped", "getUnmapped"} ->
         [authMode |-> a.amplifyAuthMode,
          authToken |-> IF a.amplifyAuthMode = "userPool" /\ Truthy(a.authToken)
                        THEN a.authToken ELSE Null]
    [] kind \in {"putInline", "deleteInline"} ->
         [authMode |-> "userPool", authToken |-> a.authToken]
    [] kind = "putAppSync" ->
         [authMode |-> Null, authToken |-> a.authToken]
    [] kind = "getTodos" ->
         [authMode |-> a.authMode, authToken |-> a.authToken]

(***************************************************************************)
(* AppSync transport of the AppSync PUT variant                            *)
(***************************************************************************)

\* what one fetch of the GraphQL endpoint can yield: the fetch throws, the
\* body is not JSON, or an HTTP response with a GraphQL payload
AppSyncOutcomes ==
  [kind : {"netfail", "badjson"}, ok : {FALSE}, httpStatus : {0},
   errors : {None}, hasData : {FALSE}, data : {NoPost}]
  \cup
  [kind : {"http"}, ok : {FALSE}, httpStatus : {401, 403, 500},
   errors : {None, Some(<<[message |-> Some(<<"Unauthorized">>)]>>)},
   hasData : {FALSE}, data : {NoPost}]
  \cup
  [kind : {"http"}, ok : {TRUE}, httpStatus : {200},
   errors : ErrorLists, hasData : {FALSE}, data : {NoPost}]
  \cup
  [kind : {"http"}, ok : {TRUE}, httpStatus : {200},
   errors : ErrorLists, hasData : {TRUE},
   data : {NoPost} \cup {Post(o) : o \in Owners}]

RECURSIVE JoinAll(_)
\* errors.map(error => error.message).join('; '): nothing is filtered, a
\* missing message joins as the empty string
JoinAll(entries) ==
  IF entries = <<>> THEN <<>>
  ELSE IF Len(entries) = 1 THEN Head(entries).message.val
  ELSE Head(entries).message.val \o <<"; ">> \o JoinAll(Tail(entries))

\* callAppSync reporting an unreachable endpoint as an internal error
callAppSync_Internal(o) ==
  LET joined == IF o.errors.some THEN JoinAll(o.errors.val) ELSE <<>>
  IN
  IF o.kind = "netfail"
  THEN [err |-> Err(500, <<"Failed to reach AppSync endpoint">>), data |-> NoPost]
  ELSE IF o.kind = "badjson"
  THEN [err |-> Err(502, <<"Invalid response from AppSync">>), data |-> NoPost]
  ELSE IF ~o.ok
  THEN [err |-> Err(IF o.httpStatus = 401 \/ o.httpStatus = 403 THEN o.httpStatus ELSE 502,
                    IF joined = <<>> THEN <<"AppSync request failed">> ELSE joined),
        data |-> NoPost]
  ELSE IF o.errors.some /\ Len(o.errors.val) > 0
  THEN [err |-> Err(IF Test({"unauthorized", "not authorized"}, joined) THEN 403 ELSE 502,
                    joined),
        data |-> NoPost]
  ELSE IF ~o.hasData
  THEN [err |-> Err(502, <<"AppSync response did not include data">>), data |-> NoPost]
  ELSE [err |-> NoErr, data |-> o.data]

\* callAppSync: the error thrown, or NoErr with the payload's data
callAppSync(o) ==
  LET joined == IF o.errors.some THEN JoinAll(o.errors.val) ELSE <<>>
  IN
  IF o.kind = "netfail"
  THEN [err |-> Err(502, <<"Failed to reach AppSync endpoint">>), data |-> NoPost]
  ELSE IF o.kind = "badjson"
  THEN [err |-> Err(502, <<"Invalid response from AppSync">>), data |-> NoPost]
  ELSE IF ~o.ok
  THEN [err |-> Err(IF o.httpStatus = 401 \/ o.httpStatus = 403 THEN o.httpStatus ELSE 502,
                    IF joined = <<>> THEN <<"AppSync request failed">> ELSE joined),
        data |-> NoPost]
  ELSE IF o.errors.some /\ Len(o.errors.val) > 0
  THEN [err |-> Err(IF Test({"unauthorized", "not authorized"}, joined) THEN 403 ELSE 502,
                    joined),
        data |-> NoPost]
  ELSE IF ~o.hasData
  THEN [err |-> Err(502, <<"AppSync response did not include data">>), data |-> NoPost]
  ELSE [err |-> NoErr, data |-> o.data]

(***************************************************************************)
(* Handlers, second segment: the record is fetched, ownership is checked   *)
(***************************************************************************)

\* deriveError of the inline DELETE handler
DeleteInlineDeriveError(message) ==
  IF Test(forbiddenPattern, message) THEN Err(403, <<"Forbidden">>)
  ELSE Err(500, <<"Failed to delete post">>)

\* the inline ownership comparison without the comparison
InlineOwnerCheck_Absent(owner, userSub) == NoErr

\* the inline ownership comparison of the inline handlers
InlineOwnerCheck(owner, userSub) ==
  IF Truthy(owner) /\ owner # userSub THEN Err(403, <<"Forbidden">>) ELSE NoErr

\* the same segment without the check for a missing record
ResolveAfterGet_NoNotFound(o, userSub) ==
  IF o.kind = "throw"
  THEN toHttpError(Some(o.msg), Err(500, <<"Failed to load post">>))
  ELSE IF TruthyText(collectErrors(o))
  THEN toHttpError(collectErrors(o), Err(500, <<"Failed to load post">>))
  ELSE assertOwnership(o.data.owner, userSub)

\* PUT and DELETE on resolveServerAuth: get answered, up to the mutation
ResolveAfterGet(o, userSub) ==
  IF o.kind = "throw"
  THEN toHttpError(Some(o.msg), Err(500, <<"Failed to load post">>))
  ELSE IF TruthyText(collectErrors(o))
  THEN toHttpError(collectErrors(o), Err(500, <<"Failed to load post">>))
  ELSE IF ~o.data.exists THEN Err(404, <<"Post not found">>)
  ELSE assertOwnership(o.data.owner, userSub)

\* PUT, inline Amplify-client variant: get answered, up to the update
PutInlineAfterGet(o, userSub) ==
  IF o.kind = "throw" THEN Err(500, <<"Failed to load post">>)
  ELSE IF TruthyText(collectErrors(o)) THEN Err(500, collectErrors(o).val)
  ELSE IF ~o.data.exists THEN Err(404, <<"Post not found">>)
  ELSE InlineOwnerCheck(o.data.owner, userSub)

\* DELETE, inline variant: get answered, up to the delete
DeleteInlineAfterGet(o, userSub) ==
  IF o.kind = "throw" THEN Err(500, <<"Failed to load post">>)
  ELSE IF TruthyText(collectErrors(o)) THEN DeleteInlineDeriveError(collectErrors(o).val)
  ELSE IF ~o.data.exists THEN Err(404, <<"Post not found">>)
  ELSE InlineOwnerCheck(o.data.owner, userSub)

\* PUT, AppSync variant: GetPost answered, up to the UpdatePost call
PutAppSyncAfterGet(o, userSub) ==
  IF callAppSync(o).err # NoErr THEN callAppSync(o).err
  ELSE IF ~callAppSync(o).data.exists THEN Err(404, <<"Post not found">>)
  ELSE InlineOwnerCheck(callAppSync(o).data.owner, userSub)

\* second segment of a PUT or DELETE handler: the error thrown, or NoErr
\* when the handler goes on to the mutation
AfterGet(kind, o, userSub) ==
  CASE kind \in {"putResolve", "deleteResolve"} -> ResolveAfterGet(o, userSub)
    [] kind = "putInline" -> PutInlineAfterGet(o, userSub)
    [] kind = "deleteInline" -> DeleteInlineAfterGet(o, userSub)
    [] kind = "putAppSync" -> PutAppSyncAfterGet(o, userSub)

\* the record a PUT or DELETE handler holds after the get
Fetched(kind, o) ==
  IF kind = "putAppSync"
  THEN (IF callAppSync(o).err = NoErr THEN callAppSync(o).data ELSE NoPost)
  ELSE IF o.kind = "resp" /\ ~TruthyText(collectErrors(o)) THEN o.data
  ELSE NoPost

(***************************************************************************)
(* Handlers, last segment: the mutation (or the list) is answered          *)
(***************************************************************************)

\* a response without error: 204 for a null body, 200 otherwise
Success(hasBody) == Err(IF hasBody THEN 200 ELSE 204, <<>>)

\* PUT and POST on resolveServerAuth
ResolveAfterWrite(o, what, unexpected) ==
  IF o.kind = "throw" THEN toHttpError(Some(o.msg), Err(500, <<what>>))
  ELSE IF TruthyText(collectErrors(o)) THEN toHttpError(collectErrors(o), Err(500, <<what>>))
  ELSE IF ~o.data.exists THEN Err(500, <<unexpected>>)
  ELSE Success(TRUE)

\* DELETE on resolveServerAuth that takes a delete answered without data
\* for a failure, as the PUT handler does for its update
DeleteResolveAfterDelete_DataRequired(o) ==
  IF o.kind = "throw"
  THEN toHttpError(Some(o.msg), Err(500, <<"Failed to delete post">>))
  ELSE IF TruthyText(collectErrors(o))
  THEN toHttpError(collectErrors(o), Err(500, <<"Failed to delete post">>))
  ELSE IF ~o.data.exists THEN Err(500, <<"Failed to delete post">>)
  ELSE Success(TRUE)

\* DELETE on resolveServerAuth
DeleteResolveAfterDelete(o) ==
  IF o.kind = "throw"
  THEN toHttpError(Some(o.msg), Err(500, <<"Failed to delete post">>))
  ELSE IF TruthyText(collectErrors(o))
  THEN toHttpError(collectErrors(o), Err(500, <<"Failed to delete post">>))
  ELSE Success(o.data.exists)

\* deriveError of the inline POST handler
PostInlineDeriveError(message) ==
  IF Test({"missing bearer token", "no current user", "no federated jwt",
           "token subject is missing"}, message)
  THEN Err(401, <<"Unauthorized">>)
  ELSE IF Test(forbiddenPattern, message) THEN Err(403, <<"Forbidden">>)
  ELSE Err(500, <<"Failed to create post">>)

\* POST, inline variant
PostInlineAfterCreate(o) ==
  IF o.kind = "throw" THEN PostInlineDeriveError(o.msg)
  ELSE IF TruthyText(collectErrors(o)) THEN PostInlineDeriveError(collectErrors(o).val)
  ELSE IF ~o.data.exists THEN Err(500, <<"Post creation failed unexpectedly">>)
  ELSE Success(TRUE)

\* PUT, inline Amplify-client variant
PutInlineAfterUpdate(o) ==
  IF o.kind = "throw"
  THEN (IF Test(forbiddenPattern, o.msg) THEN Err(403, <<"Forbidden">>)
        ELSE Err(500, <<"Failed to update post">>))
  ELSE IF TruthyText(collectErrors(o))
  THEN Err(IF Test(forbiddenPattern, collectErrors(o).val) THEN 403 ELSE 500,
           collectErrors(o).val)
  ELSE IF ~o.data.exists THEN Err(500, <<"Post update failed unexpectedly">>)
  ELSE Success(TRUE)

\* DELETE, inline variant
DeleteInlineAfterDelete(o) ==
  IF o.kind = "throw" THEN DeleteInlineDeriveError(o.msg)
  ELSE IF TruthyText(collectErrors(o)) THEN DeleteInlineDeriveError(collectErrors(o).val)
  ELSE Success(o.data.exists)

\* PUT, AppSync variant
PutAppSyncAfterUpdate(o) ==
  IF callAppSync(o).err # NoErr THEN callAppSync(o).err
  ELSE IF ~callAppSync(o).data.exists
  THEN Err(500, <<"Post update failed unexpectedly">>)
  ELSE Success(TRUE)

\* deriveError of the mapping GET handler
GetMappedDeriveError(message) ==
  IF Test({"no current user", "no federated jwt", "missing bearer token"}, message)
  THEN Err(401, <<"Unauthorized">>)
  ELSE IF Test(forbiddenPattern, message) THEN Err(403, <<"Forbidden">>)
  ELSE Err(500, <<"Failed to load posts">>)

\* GET, mapping variant
GetMappedAfterList(o) ==
  IF o.kind = "throw" THEN GetMappedDeriveError(o.msg)
  ELSE IF TruthyText(collectErrors(o)) THEN GetMappedDeriveError(collectErrors(o).val)
  ELSE Success(TRUE)

\* GET, variant without mapping
GetUnmappedAfterList(o) ==
  IF o.kind = "throw" THEN Err(500, <<"Failed to load posts">>)
  ELSE IF TruthyText(collectErrors(o))
  THEN Err(IF Test(forbiddenPattern, collectErrors(o).val) THEN 403 ELSE 500,
           collectErrors(o).val)
  ELSE Success(TRUE)

\* outcomes of client.models.Todo.list: those of any call, or the client
\* throws for want of a federated identity
TodoListOutcomes ==
  MutateOutcomes \cup
  [kind : {"throw"}, msg : {<<"No federated jwt">>}, data : {NoPost}, errors : {None}]

\* GET /todos: the list threw for want of a federated identity on a request
\* without token, and the handler lists again as guest
TodosRetryAsGuest(a, o) ==
  /\ o.kind = "throw"
  /\ ~Truthy(a.authToken)
  /\ a.authMode = "identityPool"
  /\ Test({"no federated jwt"}, o.msg)

\* GET /todos after a list (the first one or the one as guest)
TodosAfterList(o) ==
  IF o.kind = "throw" THEN Err(500, <<"Failed to fetch todos">>)
  ELSE IF TruthyText(collectErrors(o)) THEN Err(500, collectErrors(o).val)
  ELSE Success(TRUE)

\* last segment of a handler: the response
AfterMutate(kind, o) ==
  CASE kind = "putResolve" ->
         ResolveAfterWrite(o, "Failed to update post", "Post update failed unexpectedly")
    [] kind = "postResolve" ->
         ResolveAfterWrite(o, "Failed to create post", "Post creation failed unexpectedly")
    [] kind = "deleteResolve" -> DeleteResolveAfterDelete(o)
    [] kind = "postInline" -> PostInlineAfterCreate(o)
    [] kind = "putInline" -> PutInlineAfterUpdate(o)
    [] kind = "deleteInline" -> DeleteInlineAfterDelete(o)
    [] kind = "putAppSync" -> PutAppSyncAfterUpdate(o)
    [] kind = "getMapped" -> GetMappedAfterList(o)
    [] kind = "getUnmapped" -> GetUnmappedAfterList(o)
    [] kind = "getTodos" -> TodosAfterList(o)

\* the store operation a handler ends with and the input fields it sends
MutateOp(kind) ==
  CASE kind \in PutKinds -> "update"
    [] kind \in DeleteKinds -> "delete"
    [] kind \in PostKinds -> "create"
    [] kind \in GetKinds \cup TodoKinds -> "list"

\* the input fields with an owner added to the input of a create
\* the input fields with an owner added to the input of an update
MutateFields_OwnerInUpdate(kind) ==
  CASE kind \in PutKinds -> {"id", "content", "displayName", "owner"}
    [] kind \in DeleteKinds -> {"id"}
    [] kind \in PostKinds -> {"content", "displayName"}
    [] kind \in GetKinds \cup TodoKinds -> {}

\* the input fields with an owner added to the input of a create
MutateFields_WithOwner(kind) ==
  CASE kind \in PutKinds -> {"id", "content", "displayName"}
    [] kind \in DeleteKinds -> {"id"}
    [] kind \in PostKinds -> {"content", "displayName", "owner"}
    [] kind \in GetKinds \cup TodoKinds -> {}

MutateFields(kind) ==
  CASE kind \in PutKinds -> {"id", "content", "displayName"}
    [] kind \in DeleteKinds -> {"id"}
    [] kind \in PostKinds -> {"content", "displayName"}
    [] kind \in GetKinds \cup TodoKinds -> {}

(***************************************************************************)
(* State and actions                                                       *)
(***************************************************************************)

VARIABLES
  config,    \* cognitoConfig / AppSync endpoint of the process
  pc,        \* where the handler of the request stands
  req,       \* the request (or direct call) being handled
  auth,      \* the outcome of the first segment: the resolved caller
  post,      \* the record the handler fetched
  calls,     \* the calls made to the record store, in order
  response,  \* the error thrown (statusCode 0: none yet; 200/204: success)
  twin,      \* the run of the same handler on the same request sent
             \* without Authorization header, given the same store answers
  answers    \* what the store answered to the calls, in order

\* the state of one request handled alone
handlerVars == <<config, pc, req, auth, post, calls, response, twin, answers>>

\* the state of the module-level verifier cache and of the verifyToken
\* calls running concurrently in the process
VARIABLES
  cachedAccessVerifier,  \* the cached verifier for access tokens, or null
  cachedIdVerifier,      \* the cached verifier for id tokens, or null
  built,                 \* how many verifiers of each use were constructed
  verifyCalls            \* the verifyToken calls: where each stands

verifierVars == <<cachedAccessVerifier, cachedIdVerifier, built, verifyCalls>>

\* the state of two PUT / DELETE requests on one record of the store
VARIABLES
  stored,     \* the record as the store holds it
  racers,     \* the two requests: what was asked and how far the run is
  mutations   \* the updates and deletes issued so far, in order

raceVars == <<stored, racers, mutations>>

\* the state of the useAuth composable in one browser tab
VARIABLES
  initialized,      \* useAuth() has started its initial loads
  user,             \* the ref user (the signed-in user, or Null)
  identityId,       \* the ref identityId
  identityLoading,  \* the ref identityLoading
  identityFrom,     \* which fetch assigned identityId last
  session,          \* the user signed in with the auth service, or Null
  tasks             \* the asynchronous calls: where each stands

useAuthVars ==
  <<initialized, user, identityId, identityLoading, identityFrom, session, tasks>>

\* the state that only the concurrent specifications change
concurrentVars == <<verifierVars, raceVars, useAuthVars>>

vars == <<handlerVars, concurrentVars>>

NoAuth == AuthFail(NoErr, <<>>)

\* the run of a handler: where it stands and what it has produced
Run(p, a, po, c, r) ==
  [pc |-> p, auth |-> a, post |-> po, calls |-> c, response |-> r]

IdleRun == Run("idle", NoAuth, NoPost, <<>>, NoErr)

\* the request as it is when sent without Authorization header
WithoutHeader(r) == [r EXCEPT !.header = None]

\* a handler that goes on to the store although its first segment threw
RunAfterBegin_GoOn(r, a) ==
  Run(IF r.kind \in PutKinds \cup DeleteKinds THEN "get" ELSE "mutate",
      a, NoPost, <<>>, a.err)

\* where a handler stands once its first segment has produced a: it has
\* thrown, or goes on to the get (PUT / DELETE) or to its one store call
RunAfterBegin(r, a) ==
  Run(IF a.err # NoErr THEN "done"
      ELSE IF r.kind \in PutKinds \cup DeleteKinds THEN "get"
      ELSE "mutate",
      a, NoPost, <<>>, a.err)

\* a handler run through its first segment
BeginRun(r, cfg) == RunAfterBegin(r, Begin(r, cfg))

\* a PUT / DELETE run through its second segment, the get answering o
GetRun(run, kind, o) ==
  LET args == StoreArgs(kind, run.auth)
      e == AfterGet(kind, o, run.auth.userSub)
  IN Run(IF e # NoErr THEN "done" ELSE "mutate",
         run.auth,
         Fetched(kind, o),
         Append(run.calls, Call("get", args.authMode, args.authToken, {"id"})),
         e)

\* a run through its last segment, the create / update / delete / list
\* answering o
MutateRun(run, kind, o) ==
  LET args == StoreArgs(kind, run.auth)
      retry == kind = "getTodos" /\ TodosRetryAsGuest(run.auth, o)
  IN Run(IF retry THEN "guest" ELSE "done",
         run.auth,
         run.post,
         Append(run.calls, Call(MutateOp(kind), args.authMode, args.authToken,
                                MutateFields(kind))),
         IF retry THEN NoErr ELSE AfterMutate(kind, o))

\* a GET /todos run through its list as guest, answering o
GuestRun(run, o) ==
  Run("done", run.auth, run.post,
      Append(run.calls, Call("list", "guest", Null, {})),
      TodosAfterList(o))

\* number of verifyToken calls that run concurrently
MaxCalls == 3

\* the instance CognitoJwtVerifier.create returns; serial tells the
\* instances of one use apart
Verifier(use, serial) == [tokenUse |-> use, serial |-> serial]

\* the null a verifier cache holds before its first use
NoVerifier == Verifier(Null, 0)

\* a verifyToken call that has not begun
NoVerifyCall == [pc |-> "idle", token |-> Null, err |-> NoErr, sub |-> Null]

\* the process has just started: nothing is cached, no call is running
VerifiersIdle ==
  /\ cachedAccessVerifier = NoVerifier
  /\ cachedIdVerifier = NoVerifier
  /\ built = [access |-> 0, id |-> 0]
  /\ verifyCalls = [i \in 1..MaxCalls |-> NoVerifyCall]

\* a request that has not arrived
NoRacer == [req |-> NoRequest, run |-> IdleRun]

\* no request has arrived and nothing was issued; the store holds rec
RaceIdle(rec) ==
  /\ stored = rec
  /\ racers = [i \in 1..2 |-> NoRacer]
  /\ mutations = <<>>

\* a fetchAuthSession call: forced or not, begun after the sign-in or not
Fetch(forceRefresh, afterSignIn) ==
  [forceRefresh |-> forceRefresh, afterSignIn |-> afterSignIn]

\* no fetch has assigned identityId
NoFetch == [forceRefresh |-> FALSE, afterSignIn |-> FALSE, none |-> TRUE]

\* login() has not been called
NoLogin == [pc |-> "idle", username |-> Null, result |-> Null]

\* the module has been loaded: the refs hold their initial values
UseAuthIdle ==
  /\ initialized = FALSE
  /\ user = Null
  /\ identityId = Null
  /\ identityLoading = FALSE
  /\ identityFrom = NoFetch
  /\ session = Null
  /\ tasks = [loadUser |-> "idle", loadIdentity |-> "idle", login |-> NoLogin]

\* the concurrent parts of the program are at rest
NothingConcurrent == VerifiersIdle /\ RaceIdle(NoPost) /\ UseAuthIdle

Init ==
  /\ config \in Configs
  /\ pc = "idle"
  /\ req = NoRequest
  /\ auth = NoAuth
  /\ post = NoPost
  /\ calls = <<>>
  /\ response = NoErr
  /\ twin = IdleRun
  /\ answers = <<>>
  /\ NothingConcurrent

\* a request reaches one of the /posts handlers
Receive ==
  /\ pc = "idle"
  /\ \E r \in Requests : req' = r
  /\ pc' = "begin"
  /\ twin' = [twin EXCEPT !.pc = "begin"]
  /\ UNCHANGED <<config, auth, post, calls, response, answers, concurrentVars>>

\* the handler validates the request and resolves the caller
BeginHandler ==
  /\ pc = "begin"
  /\ \E n \in {BeginRun(req, config)} :
       /\ auth' = n.auth
       /\ response' = n.response
       /\ pc' = n.pc
  /\ twin' = BeginRun(WithoutHeader(req), config)
  /\ UNCHANGED <<config, req, post, calls, answers, concurrentVars>>

\* PUT / DELETE: the store answers the get; errors, 404 and ownership
StoreGet ==
  /\ pc = "get"
  /\ \E o \in IF req.kind = "putAppSync" THEN AppSyncOutcomes ELSE GetOutcomes :
       LET n == GetRun(Run(pc, auth, post, calls, response), req.kind, o)
       IN /\ calls' = n.calls
          /\ post' = n.post
          /\ response' = n.response
          /\ pc' = n.pc
          /\ twin' = IF twin.pc = "get" THEN GetRun(twin, req.kind, o) ELSE twin
          /\ answers' = Append(answers, o)
  /\ UNCHANGED <<config, req, auth, concurrentVars>>

\* the store answers the create / update / delete / list; the response
StoreMutate ==
  /\ pc = "mutate"
  /\ \E o \in IF req.kind = "putAppSync" THEN AppSyncOutcomes
             ELSE IF req.kind = "getTodos" THEN TodoListOutcomes
             ELSE MutateOutcomes :
       LET n == MutateRun(Run(pc, auth, post, calls, response), req.kind, o)
       IN /\ calls' = n.calls
          /\ response' = n.response
          /\ pc' = n.pc
          /\ twin' = IF twin.pc = "mutate" THEN MutateRun(twin, req.kind, o) ELSE twin
          /\ answers' = Append(answers, o)
  /\ UNCHANGED <<config, req, auth, post, concurrentVars>>

\* GET /todos: the store answers the list made as guest
StoreGuestList ==
  /\ pc = "guest"
  /\ \E o \in MutateOutcomes :
       LET n == GuestRun(Run(pc, auth, post, calls, response), o)
       IN /\ calls' = n.calls
          /\ response' = n.response
          /\ pc' = n.pc
          /\ twin' = IF twin.pc = "guest" THEN GuestRun(twin, o) ELSE twin
          /\ answers' = Append(answers, o)
  /\ UNCHANGED <<config, req, auth, post, concurrentVars>>

\* resolveServerAuth called with arbitrary options
CallResolveServerAuth ==
  /\ pc = "idle"
  /\ \E h \in Headers, m \in RequestedModes, rt \in BOOLEAN, d \in DefaultModes :
       /\ req' = ResolveCall(h, m, rt, d)
       /\ auth' = resolveServerAuth(h, m, rt, d, config)
       /\ response' = resolveServerAuth(h, m, rt, d, config).err
       /\ twin' = Run("done", resolveServerAuth(None, m, rt, d, config), NoPost,
                      <<>>, resolveServerAuth(None, m, rt, d, config).err)
  /\ pc' = "done"
  /\ UNCHANGED <<config, post, calls, answers, concurrentVars>>

\* assertOwnership called with arbitrary arguments
CallAssertOwnership ==
  /\ pc = "idle"
  /\ \E o \in Owners, u \in {Null, ""} \cup Subjects :
       /\ req' = OwnershipCall(o, u)
       /\ response' = assertOwnership(o, u)
  /\ pc' = "done"
  /\ UNCHANGED <<config, auth, post, calls, twin, answers, concurrentVars>>

\* extractBearerToken called with an arbitrary header; the value returned
\* is kept in auth.authToken
CallExtractBearerToken ==
  /\ pc = "idle"
  /\ \E h \in Headers :
       /\ req' = ExtractCall(h)
       /\ auth' = [NoAuth EXCEPT !.authToken = extractBearerToken(h)]
  /\ pc' = "done"
  /\ UNCHANGED <<config, post, calls, response, twin, answers, concurrentVars>>

\* verifyToken called with an arbitrary token; the payload's sub, the error
\* thrown and the verifiers invoked are kept in auth
CallVerifyToken ==
  /\ pc = "idle"
  /\ \E t \in Tokens :
       LET v == verifyToken(t, config)
       IN /\ req' = VerifyCall(t)
          /\ auth' = [NoAuth EXCEPT !.err = v.err, !.userSub = v.sub,
                                    !.attempts = v.attempts]
          /\ response' = v.err
  /\ pc' = "done"
  /\ UNCHANGED <<config, post, calls, twin, answers, concurrentVars>>

\* toHttpError called with an arbitrary message and fallback
CallToHttpError ==
  /\ pc = "idle"
  /\ \E m \in Messages, f \in Fallbacks :
       /\ req' = HttpErrorCall(m, f)
       /\ response' = toHttpError(m, f)
  /\ pc' = "done"
  /\ UNCHANGED <<config, auth, post, calls, twin, answers, concurrentVars>>

\* toHttpError applied to the status message of the error it returned,
\* with the same fallback; the first error is kept in auth.err
Reclassify ==
  /\ pc = "done"
  /\ req.kind = "toHttpError"
  /\ auth' = [auth EXCEPT !.err = response]
  /\ response' = toHttpError(Some(response.statusMessage), req.fallback)
  /\ pc' = "reclassified"
  /\ UNCHANGED <<config, req, post, calls, twin, answers, concurrentVars>>

Next ==
  \/ Receive
  \/ BeginHandler
  \/ StoreGet
  \/ StoreMutate
  \/ StoreGuestList
  \/ CallResolveServerAuth
  \/ CallAssertOwnership
  \/ CallExtractBearerToken
  \/ CallVerifyToken
  \/ CallToHttpError
  \/ Reclassify

Spec == Init /\ [][Next]_vars

(***************************************************************************)
(* Concurrent verifyToken calls on the cached verifiers                    *)
(***************************************************************************)

\* the tokens the concurrent calls verify: an access token, an id token and
\* one that no verifier accepts
VerifyTokens == {"tAcc1", "tId1", "tExpired"}

\* a cache that constructs a verifier on every call
cacheVerifier_Always(cached, use, serial) == Verifier(use, serial)

\* `if (!cached) cached = CognitoJwtVerifier.create(...)`: the value of
\* the cache afterwards
cacheVerifier(cached, use, serial) ==
  IF cached = NoVerifier THEN Verifier(use, serial) ELSE cached

\* the count of constructions after the cache went from cached to now
Built(count, cached, now) == IF now # cached THEN count + 1 ELSE count

\* the handler state of the specifications of the concurrent parts: no
\* single request is being handled
HandlerIdle ==
  /\ pc = "idle"
  /\ req = NoRequest
  /\ auth = NoAuth
  /\ post = NoPost
  /\ calls = <<>>
  /\ response = NoErr
  /\ twin = IdleRun
  /\ answers = <<>>

InitVerify ==
  /\ config \in Configs
  /\ HandlerIdle
  /\ VerifiersIdle
  /\ RaceIdle(NoPost)
  /\ UseAuthIdle

\* verifyToken up to its first await: the configuration is read, the
\* access verifier is constructed unless cached, and its verify is called
VerifyStart(i) ==
  /\ verifyCalls[i].pc = "idle"
  /\ \E t \in VerifyTokens :
       IF getCognitoConfig(config) # NoErr
       THEN /\ verifyCalls' = [verifyCalls EXCEPT ![i] =
                 [pc |-> "done", token |-> t, err |-> getCognitoConfig(config),
                  sub |-> Null]]
            /\ UNCHANGED <<cachedAccessVerifier, built>>
       ELSE \E now \in {cacheVerifier(cachedAccessVerifier, "access", built.access + 1)} :
              /\ cachedAccessVerifier' = now
              /\ built' = [built EXCEPT !.access = Built(@, cachedAccessVerifier, now)]
              /\ verifyCalls' = [verifyCalls EXCEPT ![i] =
                   [pc |-> "awaitAccess", token |-> t, err |-> NoErr, sub |-> Null]]
  /\ UNCHANGED <<cachedIdVerifier, handlerVars, raceVars, useAuthVars>>

\* the access verification settles: the payload is returned, or in the
\* catch the id verifier is constructed unless cached and its verify called
AccessSettles(i) ==
  /\ verifyCalls[i].pc = "awaitAccess"
  /\ IF AccessVerify(verifyCalls[i].token).ok
     THEN /\ verifyCalls' = [verifyCalls EXCEPT ![i].pc = "done",
                               ![i].sub = AccessVerify(verifyCalls[i].token).sub]
          /\ UNCHANGED <<cachedIdVerifier, built>>
     ELSE \E now \in {cacheVerifier(cachedIdVerifier, "id", built.id + 1)} :
            /\ cachedIdVerifier' = now
            /\ built' = [built EXCEPT !.id = Built(@, cachedIdVerifier, now)]
            /\ verifyCalls' = [verifyCalls EXCEPT ![i].pc = "awaitId"]
  /\ UNCHANGED <<cachedAccessVerifier, handlerVars, raceVars, useAuthVars>>

\* the id verification settles: the payload is returned or 401 is thrown
IdSettles(i) ==
  /\ verifyCalls[i].pc = "awaitId"
  /\ verifyCalls' =
       IF IdVerify(verifyCalls[i].token).ok
       THEN [verifyCalls EXCEPT ![i].pc = "done",
                                ![i].sub = IdVerify(verifyCalls[i].token).sub]
       ELSE [verifyCalls EXCEPT ![i].pc = "failed",
                                ![i].err = Err(401, <<"Invalid or expired token">>)]
  /\ UNCHANGED <<cachedAccessVerifier, cachedIdVerifier, built, handlerVars, raceVars,
                 useAuthVars>>

NextVerify ==
  \/ \E i \in 1..MaxCalls : VerifyStart(i)
  \/ \E i \in 1..MaxCalls : AccessSettles(i)
  \/ \E i \in 1..MaxCalls : IdSettles(i)

SpecVerify == InitVerify /\ [][NextVerify]_vars

(***************************************************************************)
(* Two concurrent PUT / DELETE requests on the same record                 *)
(***************************************************************************)

\* the configuration of a deployed application: every value present
CompleteConfig ==
  [userPoolId |-> TRUE, clientId |-> TRUE, region |-> TRUE, graphqlEndpoint |-> TRUE]

\* the Authorization headers of the two requests
RaceHeaders ==
  {None} \cup {Some(<<"Bearer", SP, t>>) : t \in {"tAcc1", "tAcc2", "tId1", "tExpired", "tNoSub"}}

\* the two requests: any PUT / DELETE variant on the record's id
RaceRequests ==
  {Request(k, h, TRUE, TRUE, Null) : k \in PutKinds \cup DeleteKinds, h \in RaceHeaders}

\* the store answers a call of a handler of this kind with record rec
StoreAnswer(kind, rec) ==
  IF kind = "putAppSync"
  THEN [kind |-> "http", ok |-> TRUE, httpStatus |-> 200, errors |-> None,
        hasData |-> TRUE, data |-> rec]
  ELSE [kind |-> "resp", msg |-> <<>>, data |-> rec, errors |-> None]

\* the store cannot be reached by a handler of this kind
StoreDown(kind) ==
  IF kind = "putAppSync"
  THEN [kind |-> "netfail", ok |-> FALSE, httpStatus |-> 0, errors |-> None,
        hasData |-> FALSE, data |-> NoPost]
  ELSE [kind |-> "throw", msg |-> <<"Network error">>, data |-> NoPost, errors |-> None]

\* the record after the store has carried out the mutation of a handler
\* of this kind: an update leaves the owner (its input has none), a delete
\* removes the record
StoredAfter(kind, rec) == IF kind \in DeleteKinds THEN NoPost ELSE rec

\* one issued mutation: the request, the subject the handler acts for, the
\* record as the handler fetched it and as the store holds it at the call
Mutation(r, run, rec) ==
  [req |-> r, op |-> MutateOp(r.kind), sub |-> run.auth.userSub,
   fetched |-> run.post, current |-> rec]

InitRace ==
  /\ config = CompleteConfig
  /\ HandlerIdle
  /\ VerifiersIdle
  /\ \E rec \in {NoPost} \cup {Post(o) : o \in Owners} : RaceIdle(rec)
  /\ UseAuthIdle

\* a request arrives and its handler runs up to the get
RaceBegin(i) ==
  /\ racers[i].run.pc = "idle"
  /\ \E r \in RaceRequests :
       racers' = [racers EXCEPT ![i] = [req |-> r, run |-> BeginRun(r, config)]]
  /\ UNCHANGED <<stored, mutations, handlerVars, verifierVars, useAuthVars>>

\* the store answers the get of a request with the record it holds, or
\* cannot be reached; the handler runs up to its update / delete
RaceGet(i) ==
  /\ racers[i].run.pc = "get"
  /\ \E o \in {StoreAnswer(racers[i].req.kind, stored), StoreDown(racers[i].req.kind)} :
       racers' = [racers EXCEPT ![i].run = GetRun(@, racers[i].req.kind, o)]
  /\ UNCHANGED <<stored, mutations, handlerVars, verifierVars, useAuthVars>>

\* the handler issues its update / delete; the store carries it out and
\* answers, or cannot be reached
RaceMutate(i) ==
  /\ racers[i].run.pc = "mutate"
  /\ mutations' = Append(mutations, Mutation(racers[i].req, racers[i].run, stored))
  /\ \/ /\ stored' = StoredAfter(racers[i].req.kind, stored)
        /\ racers' = [racers EXCEPT ![i].run =
             MutateRun(@, racers[i].req.kind, StoreAnswer(racers[i].req.kind, stored))]
     \/ /\ stored' = stored
        /\ racers' = [racers EXCEPT ![i].run =
             MutateRun(@, racers[i].req.kind, StoreDown(racers[i].req.kind))]
  /\ UNCHANGED <<handlerVars, verifierVars, useAuthVars>>

NextRace ==
  \/ \E i \in 1..2 : RaceBegin(i)
  \/ \E i \in 1..2 : RaceGet(i)
  \/ \E i \in 1..2 : RaceMutate(i)

SpecRace == InitRace /\ [][NextRace]_vars

(***************************************************************************)
(* useAuth: the initial loads and login()                                  *)
(***************************************************************************)

\* the users who can sign in
Usernames == {"u1", "u2"}

\* the identity the identity pool gives a session: that of a guest, or the
\* one of the signed-in user
IdentityOf(u) == IF u = Null THEN "guest" ELSE <<"identity", u>>

\* what signIn can resolve to or throw
SignInResults == {"signedIn", "nextStep", "error"}

\* what getCurrentUser yields when the service's session is s: the user,
\* or it throws and user becomes null
CurrentUsers(s) == {Null, s}

\* session.identityId ?? null of a fetch in flight while the service's
\* session is s, begun after the sign-in or before it (then the session
\* fetched may still be the guest's); null too when the fetch throws
FetchedIdentities(s, afterSignIn) ==
  {Null, IdentityOf(s)} \cup (IF afterSignIn THEN {} ELSE {IdentityOf(Null)})

\* loadIdentity up to its await: TRUE when it goes on to fetch, FALSE when
\* another load is in flight and it returns
loadIdentityFetches(loading) == ~loading

InitAuth ==
  /\ config = CompleteConfig
  /\ HandlerIdle
  /\ VerifiersIdle
  /\ RaceIdle(NoPost)
  /\ UseAuthIdle

\* first use of useAuth() in the browser: loadUser() and loadIdentity()
\* are started and run up to their awaits
UseAuth ==
  /\ ~initialized
  /\ initialized' = TRUE
  /\ identityLoading' = TRUE
  /\ tasks' = [tasks EXCEPT !.loadUser = "fetching", !.loadIdentity = "fetching"]
  /\ UNCHANGED <<user, identityId, identityFrom, session, handlerVars, verifierVars,
                 raceVars>>

\* getCurrentUser of the initial loadUser settles
InitialUserSettles ==
  /\ tasks.loadUser = "fetching"
  /\ \E u \in CurrentUsers(session) : user' = u
  /\ tasks' = [tasks EXCEPT !.loadUser = "done"]
  /\ UNCHANGED <<initialized, identityId, identityLoading, identityFrom, session,
                 handlerVars, verifierVars, raceVars>>

\* fetchAuthSession of the initial loadIdentity settles
InitialIdentitySettles ==
  /\ tasks.loadIdentity = "fetching"
  /\ \E id \in FetchedIdentities(session, FALSE) : identityId' = id
  /\ identityFrom' = Fetch(FALSE, FALSE)
  /\ identityLoading' = FALSE
  /\ tasks' = [tasks EXCEPT !.loadIdentity = "done"]
  /\ UNCHANGED <<initialized, user, session, handlerVars, verifierVars, raceVars>>

\* login(username, password) is called and runs up to `await signIn`
Login ==
  /\ initialized
  /\ tasks.login.pc = "idle"
  /\ \E u \in Usernames :
       tasks' = [tasks EXCEPT !.login = [pc |-> "signIn", username |-> u, result |-> Null]]
  /\ UNCHANGED <<initialized, user, identityId, identityLoading, identityFrom, session,
                 handlerVars, verifierVars, raceVars>>

\* signIn settles: signed in, and login goes on to `await loadUser()`; or
\* a next step or an error, and login resolves
SignInSettles ==
  /\ tasks.login.pc = "signIn"
  /\ \E r \in SignInResults :
       IF r = "signedIn"
       THEN /\ session' = tasks.login.username
            /\ tasks' = [tasks EXCEPT !.login.pc = "loadUser", !.login.result = r]
       ELSE /\ session' = session
            /\ tasks' = [tasks EXCEPT !.login.pc = "resolved", !.login.result = r]
  /\ UNCHANGED <<initialized, user, identityId, identityLoading, identityFrom,
                 handlerVars, verifierVars, raceVars>>

\* getCurrentUser of login's loadUser settles; loadIdentity({ forceRefresh:
\* true }) is called: it starts its fetch, or returns because a load is in
\* flight, and then login resolves
LoginUserSettles ==
  /\ tasks.login.pc = "loadUser"
  /\ \E u \in CurrentUsers(session) : user' = u
  /\ IF loadIdentityFetches(identityLoading)
     THEN /\ identityLoading' = TRUE
          /\ tasks' = [tasks EXCEPT !.login.pc = "loadIdentity"]
     ELSE /\ identityLoading' = identityLoading
          /\ tasks' = [tasks EXCEPT !.login.pc = "resolved"]
  /\ UNCHANGED <<initialized, identityId, identityFrom, session, handlerVars,
                 verifierVars, raceVars>>

\* the forced fetchAuthSession of login's loadIdentity settles, and login
\* resolves
LoginIdentitySettles ==
  /\ tasks.login.pc = "loadIdentity"
  /\ \E id \in FetchedIdentities(session, TRUE) : identityId' = id
  /\ identityFrom' = Fetch(TRUE, TRUE)
  /\ identityLoading' = FALSE
  /\ tasks' = [tasks EXCEPT !.login.pc = "resolved"]
  /\ UNCHANGED <<initialized, user, session, handlerVars, verifierVars, raceVars>>

NextAuth ==
  \/ UseAuth
  \/ InitialUserSettles
  \/ InitialIdentitySettles
  \/ Login
  \/ SignInSettles
  \/ LoginUserSettles
  \/ LoginIdentitySettles

SpecAuth == InitAuth /\ [][NextAuth]_vars

(***************************************************************************)
(* Properties                                                              *)
(***************************************************************************)

\* the bearer token of the request
TokenOf(r) == extractBearerToken(r.header)

\* the issuer accepts the token for one of the two uses
Verifies(token) == AccessVerify(token).ok \/ IdVerify(token).ok

\* the sub of the payload the issuer returns for an accepted token
PayloadSub(token) ==
  IF AccessVerify(token).ok THEN AccessVerify(token).sub ELSE IdVerify(token).sub

\* the handler has issued its update / delete / create call
Issued(ops) == \E i \in DOMAIN calls : calls[i].op \in ops

\* the PUT / DELETE handler is past the get and holds the record
HoldsRecord ==
  /\ req.kind \in PutKinds \cup DeleteKinds
  /\ pc \in {"mutate", "done"}
  /\ post.exists

\* C1 as stated: in every PUT and DELETE handler, a fetched record whose
\* owner is non-null and differs from the caller's verified subject ends in
\* status 403 and no update / delete call is issued.
C1_NonNullOwnerMismatchForbidden ==
  (HoldsRecord /\ post.owner # Null /\ post.owner # auth.userSub)
    => (pc = "done" /\ response.statusCode = 403 /\ ~Issued({"update", "delete"}))

\* C1 amended: in every PUT and DELETE handler, a fetched record whose owner
\* is non-empty (neither null nor the empty string) and differs from the
\* caller's verified subject ends in status 403 and no update / delete call
\* is issued.
C1_OwnerMismatchForbidden ==
  (HoldsRecord /\ Truthy(post.owner) /\ post.owner # auth.userSub)
    => (pc = "done" /\ response.statusCode = 403 /\ ~Issued({"update", "delete"}))

\* a non-owner was refused by an inline handler after the get
C1_Witness ==
  /\ HoldsRecord
  /\ req.kind \in InlineKinds
  /\ post.owner = "u1"
  /\ auth.userSub = "u2"
  /\ Len(calls) = 1
  /\ response.statusCode = 403

\* C2 as stated: assertOwnership(owner, subject) for all owners and
\* subjects: subject null -> 401, also when the owner is non-null and
\* mismatches; owner null and subject non-null -> permits; owner equal to
\* subject -> permits; owner non-null and different from a non-null
\* subject -> 403.
C2_NullTable ==
  req.kind = "assertOwnership" =>
    /\ (req.userSub = Null => response.statusCode = 401)
    /\ (req.userSub # Null /\ req.owner = Null => response = NoErr)
    /\ (req.userSub # Null /\ req.owner = req.userSub => response = NoErr)
    /\ (req.userSub # Null /\ req.owner # Null /\ req.owner # req.userSub
          => response.statusCode = 403)

\* C2 amended: the same table with "null" read as "null or empty string":
\* subject null or empty -> 401, also when the owner is non-empty and
\* mismatches; owner null or empty and subject non-empty -> permits; owner
\* equal to a non-empty subject -> permits; owner non-empty and different
\* from a non-empty subject -> 403.
C2_OwnershipTable ==
  req.kind = "assertOwnership" =>
    /\ (~Truthy(req.userSub) => response.statusCode = 401)
    /\ (Truthy(req.userSub) /\ ~Truthy(req.owner) => response = NoErr)
    /\ (Truthy(req.userSub) /\ req.owner = req.userSub => response = NoErr)
    /\ (Truthy(req.userSub) /\ Truthy(req.owner) /\ req.owner # req.userSub
          => response.statusCode = 403)

\* the guard was called without a subject for a record owned by u1
C2_Witness ==
  /\ req.kind = "assertOwnership"
  /\ pc = "done"
  /\ req.owner = "u1"
  /\ req.userSub = Null
  /\ response.statusCode = 401

\* a direct call of resolveServerAuth has returned or thrown
Resolved == req.kind = "resolveServerAuth" /\ pc = "done"

\* the configuration lets the verifiers be built and they accept the token
VerifiesHere(token) == getCognitoConfig(config) = NoErr /\ Verifies(token)

\* the call returned resolved mode userPool with the request's token and
\* the subject of the token
EscalatedToUserPool ==
  /\ auth.err = NoErr
  /\ auth.authMode = "userPool"
  /\ auth.authToken = TokenOf(req)
  /\ auth.userSub = PayloadSub(TokenOf(req))

\* C3 as stated, taken for tokens whose subject is a non-empty string: a
\* bearer token that verifies and a requested mode that is absent, userPool
\* or identityPool (every requireToken, every default mode) resolve to
\* userPool with the token and the token's subject.
C3_EscalatesAlsoForIdentityPool ==
  (/\ Resolved
   /\ TokenOf(req) # Null
   /\ VerifiesHere(TokenOf(req))
   /\ PayloadSub(TokenOf(req)) \in Subjects
   /\ req.authMode \in {Null, "userPool", "identityPool"})
    => EscalatedToUserPool

\* C3 amended: a bearer token that verifies with a non-empty string subject
\* and a requested mode that is absent or userPool (every requireToken), or
\* identityPool with requireToken true, resolve to userPool with the token
\* and the token's subject, for every default mode.
C3_EscalatesToUserPool ==
  (/\ Resolved
   /\ TokenOf(req) # Null
   /\ VerifiesHere(TokenOf(req))
   /\ PayloadSub(TokenOf(req)) \in Subjects
   /\ \/ req.authMode \in {Null, "userPool"}
      \/ req.authMode = "identityPool" /\ req.requireToken)
    => EscalatedToUserPool

\* an id token and no requested mode escalated over an apiKey default
C3_Witness ==
  /\ Resolved
  /\ TokenOf(req) = "tId1"
  /\ req.authMode = Null
  /\ ~req.requireToken
  /\ req.defaultAuthMode = "apiKey"
  /\ EscalatedToUserPool

\* the call failed with MissingCredential and invoked no verifier
MissingCredential ==
  /\ auth.err = Err(401, <<"Missing bearer token">>)
  /\ auth.attempts = <<>>

\* C4 as stated: with no bearer token and (requireToken or requested mode
\* userPool), resolveServerAuth fails with 401 MissingCredential for every
\* default mode and attempts no verification.
C4_MissingTokenAlways401 ==
  (/\ Resolved
   /\ TokenOf(req) = Null
   /\ (req.requireToken \/ req.authMode = "userPool"))
    => MissingCredential

\* C4 amended: with a requested mode that is not an unsupported value, no
\* bearer token and (requireToken or requested mode userPool),
\* resolveServerAuth fails with 401 MissingCredential for every default mode
\* and attempts no verification; an unsupported requested mode fails with
\* 400 first.
C4_MissingToken401 ==
  (/\ Resolved
   /\ TokenOf(req) = Null
   /\ assertSupportedAuthMode(req.authMode) = NoErr
   /\ (req.requireToken \/ req.authMode = "userPool"))
    => MissingCredential

\* userPool was requested without a token and without requireToken
C4_Witness ==
  /\ Resolved
  /\ req.header = Some(<<"Token", SP, "xyz">>)
  /\ req.authMode = "userPool"
  /\ ~req.requireToken
  /\ req.defaultAuthMode = "iam"
  /\ MissingCredential

\* the call returned the request's token, verified in this call, and a
\* subject
HasVerifiedIdentity ==
  /\ auth.authToken # Null
  /\ auth.authToken = TokenOf(req)
  /\ auth.attempts # <<>>
  /\ Verifies(auth.authToken)
  /\ auth.userSub # Null

\* C5 as stated: whenever resolveServerAuth returns resolved mode userPool
\* it returns a token verified in that call and a non-null subject, for
\* every requested mode, token presence, requireToken and default mode.
C5_UserPoolAlwaysVerified ==
  (Resolved /\ auth.err = NoErr /\ auth.authMode = "userPool")
    => HasVerifiedIdentity

\* C5 amended: whenever resolveServerAuth returns resolved mode userPool it
\* returns a token verified in that call and a non-null subject, except
\* when userPool is the supplied default taken for a request without a
\* bearer token (then no token and no subject are returned).
C5_UserPoolVerified ==
  (/\ Resolved
   /\ auth.err = NoErr
   /\ auth.authMode = "userPool"
   /\ ~(TokenOf(req) = Null /\ req.defaultAuthMode = "userPool"))
    => HasVerifiedIdentity

\* userPool was requested with an access token of u2
C5_Witness ==
  /\ Resolved
  /\ auth.err = NoErr
  /\ req.authMode = "userPool"
  /\ auth.authMode = "userPool"
  /\ auth.authToken = "tAcc2"
  /\ auth.userSub = "u2"
  /\ HasVerifiedIdentity

\* a mutating request carries a bearer token both verifiers reject, and
\* its handler has run its first segment
RejectedTokenHandled ==
  /\ req.kind \in PostKinds \cup PutKinds \cup DeleteKinds
  /\ pc \notin {"idle", "begin"}
  /\ TokenOf(req) # Null
  /\ ~Verifies(TokenOf(req))

\* the path id is present and the body passes validation
C6_ValidRequest ==
  /\ req.kind \in PutKinds \cup DeleteKinds => req.id
  /\ req.contentOk
  /\ req.kind \in PostKinds => req.authMode \in {Null} \cup allowedAuthModes

\* the configuration the handler checks is complete
C6_Configured ==
  /\ config.userPoolId
  /\ config.clientId
  /\ req.kind \in {"putInline", "putAppSync"} => config.graphqlEndpoint

\* C6 as stated, taken for requests that pass validation under a complete
\* configuration: on every mutating endpoint a request with a bearer token
\* that both verifiers reject ends with 401 and no store call, whatever
\* else the request contains.
C6_RejectedTokenAlways401 ==
  (RejectedTokenHandled /\ C6_ValidRequest /\ C6_Configured)
    => (pc = "done" /\ response.statusCode = 401 /\ calls = <<>>)

\* C6 amended: on every mutating endpoint a request that passes validation,
\* handled under a complete configuration and carrying a bearer token that
\* both verifiers reject, ends with 401 and no store call, except on the
\* POST /posts handler built on resolveServerAuth when the body asks for
\* identityPool, iam or apiKey: there the token is not verified.
C6_RejectedToken401 ==
  (/\ RejectedTokenHandled
   /\ C6_ValidRequest
   /\ C6_Configured
   /\ ~(req.kind = "postResolve" /\ req.authMode \in {"identityPool", "iam", "apiKey"}))
    => (pc = "done" /\ response.statusCode = 401 /\ calls = <<>>)

\* an expired token was refused by a DELETE after both verifiers ran
C6_Witness ==
  /\ RejectedTokenHandled
  /\ req.kind \in DeleteKinds
  /\ auth.attempts = <<"access", "id">>
  /\ response = Err(401, <<"Invalid or expired token">>)
  /\ calls = <<>>

\* C7: a requested mode that is present (a non-empty value) but not one of
\* userPool, identityPool, iam, apiKey fails resolution with 400, whatever
\* the token and requireToken are, before any verifier is invoked (and
\* before any store call), in resolveServerAuth and in the GET handlers.
C7_UnsupportedMode400 ==
  (/\ req.kind \in {"resolveServerAuth"} \cup GetKinds
   /\ pc \notin {"idle", "begin"}
   /\ Truthy(req.authMode)
   /\ req.authMode \notin allowedAuthModes)
    => /\ pc = "done"
       /\ response = Err(400, <<"Unsupported auth mode">>)
       /\ auth.attempts = <<>>
       /\ calls = <<>>

\* an unsupported mode was refused although a valid token was required
C7_Witness ==
  /\ Resolved
  /\ req.authMode = "bogus"
  /\ req.requireToken
  /\ TokenOf(req) = "tAcc1"
  /\ VerifiesHere("tAcc1")
  /\ response.statusCode = 400

\* C8: with no bearer token, requireToken false and no requested mode,
\* resolveServerAuth returns the supplied default as resolved mode for
\* every default in the enum (identityPool when none is supplied), without
\* token and without subject.
C8_DefaultMode ==
  (/\ Resolved
   /\ TokenOf(req) = Null
   /\ ~req.requireToken
   /\ req.authMode = Null
   /\ req.defaultAuthMode \in {Null} \cup allowedAuthModes)
    => /\ auth.err = NoErr
       /\ auth.authMode =
            IF req.defaultAuthMode = Null THEN "identityPool" ELSE req.defaultAuthMode
       /\ auth.authToken = Null
       /\ auth.userSub = Null

\* the apiKey default was returned for a request without credentials
C8_Witness ==
  /\ Resolved
  /\ req.header = None
  /\ ~req.requireToken
  /\ req.authMode = Null
  /\ req.defaultAuthMode = "apiKey"
  /\ auth.authMode = "apiKey"

\* in this call the token was submitted to the verifiers, which accepted
\* it, and its payload has no non-empty string sub
VerifiedWithoutSubject ==
  /\ TokenOf(req) # Null
  /\ auth.attempts # <<>>
  /\ Verifies(TokenOf(req))
  /\ PayloadSub(TokenOf(req)) \in {Null, "", NonStringSub}

\* C9: when a bearer token is present, verification is required
\* (requireToken, or requested mode absent or userPool) and the token
\* verifies but its payload has no non-empty string sub, resolveServerAuth
\* fails with 401 MissingSubject and returns no ResolvedAuth; the update and
\* delete handlers built on it then make no store call.
C9_MissingSubject401 ==
  /\ (/\ Resolved
      /\ (req.requireToken \/ req.authMode = Null \/ req.authMode = "userPool")
      /\ VerifiedWithoutSubject)
       => /\ auth.err = Err(401, <<"Token subject is missing">>)
          /\ auth.authMode = Null
          /\ auth.authToken = Null
  /\ (/\ req.kind \in {"putResolve", "deleteResolve"}
      /\ pc \notin {"idle", "begin"}
      /\ VerifiedWithoutSubject)
       => /\ pc = "done"
          /\ response = Err(401, <<"Token subject is missing">>)
          /\ calls = <<>>

\* a DELETE with a token whose sub is not a string ended without a store call
C9_Witness ==
  /\ req.kind = "deleteResolve"
  /\ pc = "done"
  /\ TokenOf(req) = "tNumSub"
  /\ VerifiedWithoutSubject
  /\ response.statusCode = 401
  /\ calls = <<>>

\* the downstream mode resolveServerAuth returned is the mapped resolved mode
DownstreamMapped ==
  (req.kind \in {"resolveServerAuth"} \cup ResolveKinds /\ auth.err = NoErr
     /\ pc \notin {"idle", "begin"})
    => auth.amplifyAuthMode =
         IF auth.authMode \in {"identityPool", "iam"} THEN "iam" ELSE auth.authMode

\* no call of the handlers of these kinds reached the store with identityPool
NoIdentityPoolCall(kinds) ==
  req.kind \in kinds =>
    \A i \in DOMAIN calls : calls[i].authMode # "identityPool"

\* C10: the downstream mode returned by resolveServerAuth is iam for
\* resolved identityPool or iam and the resolved mode for userPool or
\* apiKey, and the store is never called with mode identityPool on any path
\* that resolves the mode (resolveServerAuth and both GET /posts handlers).
C10_NeverIdentityPoolDownstream ==
  /\ DownstreamMapped
  /\ NoIdentityPoolCall(ResolveKinds \cup GetKinds)

\* C10 amended: the downstream mode returned by resolveServerAuth is iam
\* for resolved identityPool or iam and the resolved mode for userPool or
\* apiKey; the store is never called with mode identityPool by the handlers
\* built on resolveServerAuth nor by the GET /posts variant that maps the
\* mode, while the GET /posts variant without mapping hands its resolved
\* mode, identityPool included, to the store unchanged.
C10_DownstreamMode ==
  /\ DownstreamMapped
  /\ NoIdentityPoolCall(ResolveKinds \cup {"getMapped"})
  /\ req.kind = "getUnmapped" =>
       \A i \in DOMAIN calls : calls[i].authMode = auth.authMode

\* an anonymous POST asking for identityPool reached the store as iam
C10_Witness ==
  /\ req.kind = "postResolve"
  /\ req.authMode = "identityPool"
  /\ auth.authMode = "identityPool"
  /\ Len(calls) = 1
  /\ calls[1].op = "create"
  /\ calls[1].authMode = "iam"

\* C11: resolveServerAuth returns an auth token only with resolved mode
\* userPool: with resolved mode identityPool, iam or apiKey the returned
\* token is absent, also when the request carried a bearer token; and the
\* POST /posts handlers hand a token to the store only together with
\* downstream mode userPool.
C11_TokenOnlyWithUserPool ==
  /\ (Resolved /\ auth.err = NoErr /\ auth.authMode # "userPool")
       => auth.authToken = Null
  /\ req.kind \in PostKinds =>
       \A i \in DOMAIN calls :
         calls[i].authToken # Null => calls[i].authMode = "userPool"

\* apiKey was resolved for a request carrying a valid bearer token, and no
\* token was returned
C11_Witness ==
  /\ Resolved
  /\ TokenOf(req) = "tAcc1"
  /\ req.authMode = "apiKey"
  /\ auth.err = NoErr
  /\ auth.authMode = "apiKey"
  /\ auth.authToken = Null

\* position of the first space of a text, 0 when it has none
FirstSpace(s) ==
  IF \E i \in 1..Len(s) : s[i] = SP
  THEN CHOOSE i \in 1..Len(s) : s[i] = SP /\ \A j \in 1..(i - 1) : s[j] # SP
  ELSE 0

\* the text before the first space of a text that has one
BeforeFirstSpace(s) == SubSeq(s, 1, FirstSpace(s) - 1)

\* the text that follows the first space (empty when there is no space)
AfterFirstSpace(s) ==
  IF FirstSpace(s) = 0 THEN <<>> ELSE SubSeq(s, FirstSpace(s) + 1, Len(s))

\* a text up to its first space, the whole text when it has none
UpToSpace(s) == IF FirstSpace(s) = 0 THEN s ELSE BeforeFirstSpace(s)

\* the header has a first space and the scheme before it is Bearer, in
\* any case
HasBearerScheme(header) ==
  /\ header.some
  /\ FirstSpace(header.val) > 0
  /\ Len(BeforeFirstSpace(header.val)) = 1
  /\ ToLowerCase(BeforeFirstSpace(header.val)[1]) = "bearer"

\* a direct call of extractBearerToken has returned
Extracted == req.kind = "extractBearerToken" /\ pc = "done"

\* C12 as stated: extractBearerToken returns the text that follows the
\* first space of the header when the scheme before that space is Bearer
\* (case-insensitively) and that text is non-empty, and null for every
\* other header (missing, empty, no scheme, wrong scheme, no value).
C12_ReturnsTextAfterFirstSpace ==
  Extracted =>
    IF HasBearerScheme(req.header) /\ AfterFirstSpace(req.header.val) # <<>>
    THEN AfterFirstSpace(req.header.val) = <<auth.authToken>>
    ELSE auth.authToken = Null

\* C12 amended: extractBearerToken returns the text between the first and
\* the second space of the header (up to the end when there is no second
\* space) when the scheme before the first space is Bearer
\* (case-insensitively) and that text is non-empty, and null for every
\* other header; it returns for every header.
C12_ReturnsSecondPiece ==
  Extracted =>
    IF HasBearerScheme(req.header)
       /\ UpToSpace(AfterFirstSpace(req.header.val)) # <<>>
    THEN UpToSpace(AfterFirstSpace(req.header.val)) = <<auth.authToken>>
    ELSE auth.authToken = Null

\* the token of a header with a lower-case scheme was returned
C12_Witness ==
  /\ Extracted
  /\ req.header = Some(<<"bearer", SP, "tAcc1">>)
  /\ auth.authToken = "tAcc1"

\* a direct call of verifyToken has returned or thrown
Verified == req.kind = "verifyToken" /\ pc = "done"

\* the verifier was invoked in the call
Tried(use) == \E i \in DOMAIN auth.attempts : auth.attempts[i] = use

\* C13: verifyToken tries the access-use verifier first and returns its
\* payload when it accepts; only when the access-use verifier rejects does
\* it try the id-use verifier, returning that payload when it accepts; it
\* fails with 401 exactly when both verifiers have rejected the token.
C13_AccessThenId ==
  Verified =>
    /\ (config.userPoolId /\ config.clientId) => Tried("access")
    /\ auth.attempts # <<>> => auth.attempts[1] = "access"
    /\ (Tried("access") /\ AccessVerify(req.token).ok)
         => /\ auth.attempts = <<"access">>
            /\ auth.err = NoErr
            /\ auth.userSub = AccessVerify(req.token).sub
    /\ (Tried("access") /\ ~AccessVerify(req.token).ok)
         => auth.attempts = <<"access", "id">>
    /\ Tried("id") => Tried("access") /\ ~AccessVerify(req.token).ok
    /\ (Tried("id") /\ IdVerify(req.token).ok)
         => /\ auth.err = NoErr
            /\ auth.userSub = IdVerify(req.token).sub
    /\ auth.err.statusCode = 401
         <=> /\ auth.attempts = <<"access", "id">>
             /\ ~AccessVerify(req.token).ok
             /\ ~IdVerify(req.token).ok

\* an id token was rejected by the access-use verifier and accepted by the
\* id-use verifier
C13_Witness ==
  /\ Verified
  /\ req.token = "tId1"
  /\ auth.attempts = <<"access", "id">>
  /\ auth.err = NoErr
  /\ auth.userSub = "u1"

\* the call failed with the configuration error before any verifier was
\* built or invoked (a verifier is built only on the way to its invocation)
ConfigurationMissing ==
  /\ auth.err = Err(500, <<"Cognito configuration is missing">>)
  /\ auth.attempts = <<>>

Classified == req.kind = "toHttpError" /\ pc = "done"

\* the message contains one of the phrases
Contains(message, phrases) ==
  /\ message.some
  /\ \E i \in DOMAIN message.val : PhrasesIn(message.val[i]) \cap phrases # {}

\* the credential phrases and the forbidden phrases of the claim
CredentialPhrases ==
  {"missing bearer token", "no current user", "no federated jwt",
   "token subject is missing", "invalid or expired token"}

ForbiddenPhrases == {"not authorized", "unauthorized", "forbidden"}

\* C15: toHttpError answers 401 for every message that contains a
\* credential phrase, also when the message contains a forbidden phrase
\* too; 403 for a message with forbidden phrases only; and the caller's
\* fallback for every other message, an empty or absent one included.
C15_CredentialBeforeForbidden ==
  Classified =>
    IF Contains(req.message, CredentialPhrases)
    THEN response.statusCode = 401
    ELSE IF Contains(req.message, ForbiddenPhrases)
    THEN response.statusCode = 403
    ELSE response = req.fallback

\* a message with a credential phrase and a forbidden phrase was answered 401
C15_Witness ==
  /\ Classified
  /\ req.message = Some(<<"Unauthorized: no current user">>)
  /\ Contains(req.message, ForbiddenPhrases)
  /\ response = Err(401, <<"Unauthorized">>)

\* the error toHttpError returned was classified again
Reclassified == req.kind = "toHttpError" /\ pc = "reclassified"

\* every message is answered by 401, by 403 or by the fallback
C16_Total ==
  Classified =>
    \/ response = Err(401, <<"Unauthorized">>)
    \/ response = Err(403, <<"Forbidden">>)
    \/ response = req.fallback

\* C16 as stated: classification by toHttpError is total, and classifying
\* the status message of the error it produced yields the same kind again.
C16_TotalAndIdempotent ==
  /\ C16_Total
  /\ Reclassified => response = auth.err

\* C16 amended: classification by toHttpError is total; classifying the
\* status message of a 403 or of a fallback it produced yields the same
\* kind again, while the status message 'Unauthorized' it produces for 401
\* is classified as 403.
C16_TotalAndStableBut401 ==
  /\ C16_Total
  /\ Reclassified =>
       IF auth.err.statusCode = 401
       THEN response = Err(403, <<"Forbidden">>)
       ELSE response = auth.err

\* a store denial was answered 403 and its status message again 403
C16_Witness ==
  /\ Reclassified
  /\ req.message = Some(<<"Not Authorized to access Post">>)
  /\ auth.err = Err(403, <<"Forbidden">>)
  /\ response = Err(403, <<"Forbidden">>)

\* the Authorization header is sent but is no Bearer scheme followed by a
\* value: the empty string, another scheme, no scheme, a scheme alone
Malformed(header) ==
  /\ header.some
  /\ ~(/\ HasBearerScheme(header)
       /\ UpToSpace(AfterFirstSpace(header.val)) # <<>>)

\* C17: on every endpoint (and in resolveServerAuth), for every other
\* request input and the same answers of the store, a request with a
\* malformed Authorization header gets, at every step, the response and
\* the store calls of the same request sent without Authorization header.
C17_MalformedAsAbsent ==
  (/\ req.kind \in HandlerKinds \cup {"resolveServerAuth"}
   /\ pc \notin {"idle", "begin"}
   /\ Malformed(req.header))
    => /\ twin.pc = pc
       /\ twin.response = response
       /\ twin.calls = calls
       /\ twin.auth = auth

\* an anonymous POST with header 'Token xyz' created a post exactly as
\* the twin sent without header did
C17_Witness ==
  /\ req.kind = "postResolve"
  /\ req.header = Some(<<"Token", SP, "xyz">>)
  /\ pc = "done"
  /\ Len(calls) = 1
  /\ response.statusCode = 200
  /\ twin.calls = calls
  /\ twin.response = response

\* a POST /posts with a valid body, no authMode and no bearer token is
\* past its first segment
AnonymousCreate ==
  /\ req.kind \in PostKinds
  /\ pc \notin {"idle", "begin"}
  /\ req.contentOk
  /\ req.authMode = Null
  /\ TokenOf(req) = Null

\* C18: POST /posts (with a valid body) without authMode and without
\* bearer token calls the store's create exactly once, with downstream
\* mode iam, without auth token, and with an input holding only content
\* and displayName.
C18_AnonymousCreate ==
  AnonymousCreate =>
    \/ pc = "mutate" /\ calls = <<>>
    \/ /\ pc = "done"
       /\ calls = <<Call("create", "iam", Null, {"content", "displayName"})>>

\* an anonymous create was answered by the store and succeeded
C18_Witness ==
  /\ AnonymousCreate
  /\ req.kind = "postResolve"
  /\ req.header = None
  /\ pc = "done"
  /\ Len(calls) = 1
  /\ calls[1].op = "create"
  /\ response.statusCode = 200

\* the store answered a call (it did not throw) and reported no errors
AnsweredWithoutErrors(o) ==
  /\ o.kind = "resp"
  /\ o.errors \in {None, Some(<<>>)}

\* the calls of the run that are deletes
DeleteCalls == {i \in DOMAIN calls : calls[i].op = "delete"}

\* a DELETE with a path id and a token that verifies with subject sub, for
\* which the store answered the get, without errors, with a record owned
\* by sub
DeleteByOwner(sub) ==
  /\ req.kind \in DeleteKinds
  /\ req.id
  /\ TokenOf(req) # Null
  /\ VerifiesHere(TokenOf(req))
  /\ PayloadSub(TokenOf(req)) = sub
  /\ Len(answers) >= 1
  /\ AnsweredWithoutErrors(answers[1])
  /\ answers[1].data = Post(sub)

\* C19: a DELETE /posts/{id} with a valid token whose subject equals the
\* owner of the record, against a store that answers the get and the
\* delete without errors, issues exactly one delete call for that id and
\* ends with a success response (200, or 204 for an empty body); before
\* the delete is answered no delete call has been issued and no error
\* raised.
C19_OwnerDeletes ==
  \A sub \in Subjects :
    DeleteByOwner(sub) =>
      IF Len(answers) = 1
      THEN pc = "mutate" /\ response = NoErr /\ DeleteCalls = {}
      ELSE AnsweredWithoutErrors(answers[2]) =>
             /\ pc = "done"
             /\ response.statusCode \in {200, 204}
             /\ Cardinality(DeleteCalls) = 1
             /\ calls[2] = Call("delete", "userPool", TokenOf(req), {"id"})

\* u1 deleted their own post and the store returned no body
C19_Witness ==
  /\ DeleteByOwner("u1")
  /\ req.kind = "deleteResolve"
  /\ Len(answers) = 2
  /\ AnsweredWithoutErrors(answers[2])
  /\ ~answers[2].data.exists
  /\ pc = "done"
  /\ response.statusCode = 204

\* the get of a PUT or DELETE handler was answered with no record and no
\* errors: a response whose data is null and whose errors are undefined or
\* empty (for the AppSync variant, an HTTP 200 payload with data.getPost
\* null)
NoRecordNoErrors(kind, o) ==
  IF kind = "putAppSync"
  THEN /\ o.kind = "http"
       /\ o.ok
       /\ o.hasData
       /\ o.errors \in {None, Some(<<>>)}
       /\ ~o.data.exists
  ELSE /\ AnsweredWithoutErrors(o)
       /\ ~o.data.exists

\* a PUT or DELETE of a caller with a verified subject whose get was
\* answered with no record and no errors
GetFoundNothing ==
  /\ req.kind \in PutKinds \cup DeleteKinds
  /\ pc \in {"mutate", "done"}
  /\ auth.err = NoErr
  /\ Truthy(auth.userSub)
  /\ Len(answers) >= 1
  /\ NoRecordNoErrors(req.kind, answers[1])

\* C20: in the PUT and DELETE handlers, for a caller with a verified
\* subject, when the get of the store returns no record and no errors, the
\* response status is 404 and no update or delete call is issued.
C20_MissingRecordIs404 ==
  GetFoundNothing =>
    /\ pc = "done"
    /\ response.statusCode = 404
    /\ ~Issued({"update", "delete"})
    /\ Len(calls) = 1
    /\ calls[1].op = "get"

\* u2 asked the resolveServerAuth PUT to update a record that is not there
C20_Witness ==
  /\ GetFoundNothing
  /\ req.kind = "putResolve"
  /\ auth.userSub = "u2"
  /\ answers[1].errors = Some(<<>>)
  /\ response = Err(404, <<"Post not found">>)

\* the store could not be reached: the call of the store client, or the
\* fetch of the GraphQL endpoint, threw
Unreachable(o) == o.kind \in {"throw", "netfail"}

\* the GraphQL endpoint answered with a body that is not JSON, or with an
\* OK payload that has neither errors nor data
MalformedResponse(o) ==
  \/ o.kind = "badjson"
  \/ /\ o.kind = "http"
     /\ o.ok
     /\ o.errors \in {None, Some(<<>>)}
     /\ ~o.hasData

\* a PUT handler whose last store call found the store unreachable, or
\* got a malformed response
PutStoreFailed ==
  /\ req.kind \in PutKinds
  /\ Len(answers) >= 1
  /\ \/ Unreachable(answers[Len(answers)])
     \/ MalformedResponse(answers[Len(answers)])

\* C21 as stated: in every PUT /posts/{id} handler, when the store is
\* unreachable (the store call throws) or the response is malformed, the
\* response status is 502.
C21_Unreachable502 ==
  PutStoreFailed => response.statusCode = 502

\* C21: in the AppSync PUT variant, when the fetch throws, the body is not
\* JSON or an OK payload without errors carries no data, the handler ends
\* with status 502.  In the PUT variants built on the Amplify client a
\* throwing store call ends the handler with 500, or with 401 / 403 when
\* the thrown message matches the credential or the forbidden pattern
\* (401 only in the variant on resolveServerAuth), and never with 502.
C21_Unreachable502OnlyAppSync ==
  PutStoreFailed =>
    /\ pc = "done"
    /\ LET msg == answers[Len(answers)].msg
       IN CASE req.kind = "putAppSync" -> response.statusCode = 502
            [] req.kind = "putResolve" ->
                 response.statusCode =
                   IF Test(unauthorizedPattern, msg) THEN 401
                   ELSE IF Test(forbiddenPattern, msg) THEN 403
                   ELSE 500
            [] req.kind = "putInline" ->
                 response.statusCode =
                   IF Len(answers) = 2 /\ Test(forbiddenPattern, msg) THEN 403
                   ELSE 500

\* the fetch of the UpdatePost mutation threw after a successful GetPost
C21_Witness ==
  /\ PutStoreFailed
  /\ req.kind = "putAppSync"
  /\ Len(answers) = 2
  /\ answers[2].kind = "netfail"
  /\ response = Err(502, <<"Failed to reach AppSync endpoint">>)

\* the calls of the run that are updates
UpdateCalls == {i \in DOMAIN calls : calls[i].op = "update"}

\* C22: the update input that every PUT /posts/{id} handler sends to the
\* store holds id, content and displayName and nothing else, so no PUT
\* request, and hence no sequence of them, hands the store a new owner;
\* updates are issued by PUT handlers only, at most one per request.
C22_UpdateLeavesOwner ==
  /\ \A i \in UpdateCalls :
       /\ calls[i].fields = {"id", "content", "displayName"}
       /\ "owner" \notin calls[i].fields
       /\ req.kind \in PutKinds
  /\ Cardinality(UpdateCalls) <= 1

\* u1 updated their own record through the AppSync variant
C22_Witness ==
  /\ req.kind = "putAppSync"
  /\ pc = "done"
  /\ post = Post("u1")
  /\ UpdateCalls = {2}
  /\ response.statusCode = 200

\* the handlers of /posts
PostHandlerKinds == ResolveKinds \cup InlineKinds \cup GetKinds

\* the calls of the run with one of the operations ops
CallsOf(ops) == {i \in DOMAIN calls : calls[i].op \in ops}

\* a step of the handler that failed: the store call threw, the endpoint
\* was unreachable or its answer malformed or not OK
FailedAnswer(o) ==
  \/ Unreachable(o)
  \/ MalformedResponse(o)
  \/ o.kind = "http" /\ ~o.ok

\* C23: within one request to a /posts handler nothing is retried: the
\* token goes to at most two verifiers (access once, then id once), the
\* store get is called at most once and the store mutation (create, update
\* or delete) at most once; once the resolution of the caller has failed no
\* store call is made, a failed store call is the last call of the request,
\* and a handler that holds an error has ended.
C23_NothingRetried ==
  req.kind \in PostHandlerKinds =>
    /\ auth.attempts \in {<<>>, <<"access">>, <<"access", "id">>}
    /\ Cardinality(CallsOf({"get"})) <= 1
    /\ Cardinality(CallsOf({"create", "update", "delete"})) <= 1
    /\ Cardinality(CallsOf({"list"})) <= 1
    /\ Len(calls) <= 2
    /\ Len(calls) = Len(answers)
    /\ auth.err # NoErr => calls = <<>> /\ pc = "done"
    /\ response.statusCode >= 400 => pc = "done"
    /\ \A i \in DOMAIN answers :
         FailedAnswer(answers[i]) =>
           /\ i = Len(answers)
           /\ pc = "done"
           /\ response.statusCode >= 400

\* a PUT whose token was refused as access token and accepted as id token,
\* whose get succeeded and whose update threw: two verifiers, one get, one
\* update, and the handler has ended with an error
C23_Witness ==
  /\ req.kind = "putResolve"
  /\ auth.attempts = <<"access", "id">>
  /\ Len(calls) = 2
  /\ calls[1].op = "get"
  /\ calls[2].op = "update"
  /\ answers[2].kind = "throw"
  /\ pc = "done"
  /\ response.statusCode = 500

\* some access-use verification has failed: a call is past its catch
SomeAccessVerificationFailed ==
  \E i \in 1..MaxCalls :
    /\ verifyCalls[i].pc \in {"awaitId", "done", "failed"}
    /\ verifyCalls[i].err.statusCode # 500
    /\ ~AccessVerify(verifyCalls[i].token).ok

\* C24: under any interleaving of concurrent verifyToken calls, switching
\* at the awaits only, each of the two cached verifiers is constructed at
\* most once and, once constructed, stays the instance that was constructed
\* first; the id-use verifier is constructed only after an access-use
\* verification has failed.
C24_VerifiersBuiltOnce ==
  /\ built.access <= 1
  /\ built.id <= 1
  /\ cachedAccessVerifier = IF built.access = 0 THEN NoVerifier ELSE Verifier("access", 1)
  /\ cachedIdVerifier = IF built.id = 0 THEN NoVerifier ELSE Verifier("id", 1)
  /\ cachedIdVerifier # NoVerifier => SomeAccessVerificationFailed
  /\ cachedIdVerifier # NoVerifier => cachedAccessVerifier # NoVerifier

\* three calls in flight, two of them past a failed access verification,
\* and one verifier of each use
C24_Witness ==
  /\ verifyCalls[1].pc = "awaitId"
  /\ verifyCalls[2].pc = "awaitId"
  /\ verifyCalls[3].pc = "awaitAccess"
  /\ built = [access |-> 1, id |-> 1]
  /\ cachedIdVerifier = Verifier("id", 1)

\* the mutation was issued for a verified subject that is the owner of the
\* record the handler fetched
ForTheOwner(m) ==
  /\ Verifies(TokenOf(m.req))
  /\ PayloadSub(TokenOf(m.req)) = m.sub
  /\ Truthy(m.sub)
  /\ m.sub = m.fetched.owner

\* C25: for any interleaving of two concurrent PUT / DELETE requests on
\* the same record, an update or delete is issued only for a record the
\* handler fetched and on behalf of a verified subject that equals the
\* owner of that record, or for a record that has no owner (null or
\* empty); the record the store holds when the call is issued is the one
\* fetched, unless the other request has deleted it in between.
C25_MutationOnlyForOwner ==
  \A k \in DOMAIN mutations :
    /\ mutations[k].fetched.exists
    /\ Truthy(mutations[k].fetched.owner) => ForTheOwner(mutations[k])
    /\ mutations[k].current \in {mutations[k].fetched, NoPost}

\* both requests of u1 fetched the record before either changed it: the
\* delete was carried out, then the update was issued for the record that
\* is gone
C25_Witness ==
  /\ Len(mutations) = 2
  /\ mutations[1].op = "delete"
  /\ mutations[2].op = "update"
  /\ ForTheOwner(mutations[1])
  /\ ForTheOwner(mutations[2])
  /\ mutations[2].fetched = Post("u1")
  /\ mutations[2].current = NoPost

\* C26: in the PUT and DELETE handlers built on resolveServerAuth, every
\* store call (get, update, delete) is made only after the bearer token of
\* the request itself has been verified, with downstream mode userPool and
\* that token, and the subject the ownership guard is given is the sub of
\* the payload of that verified token.
C26_StoreCallsAfterVerification ==
  (req.kind \in {"putResolve", "deleteResolve"} /\ calls # <<>>) =>
    /\ TokenOf(req) # Null
    /\ VerifiesHere(TokenOf(req))
    /\ auth.err = NoErr
    /\ auth.attempts \in {<<"access">>, <<"access", "id">>}
    /\ auth.userSub = PayloadSub(TokenOf(req))
    /\ auth.userSub \in Subjects
    /\ \A i \in DOMAIN calls :
         /\ calls[i].op \in {"get", "update", "delete"}
         /\ calls[i].authMode = "userPool"
         /\ calls[i].authToken = TokenOf(req)

\* a DELETE with an id token of u1: the get and the delete were made as
\* userPool with that token, after the id verifier accepted it
C26_Witness ==
  /\ req.kind = "deleteResolve"
  /\ TokenOf(req) = "tId1"
  /\ auth.attempts = <<"access", "id">>
  /\ auth.userSub = "u1"
  /\ Len(calls) = 2
  /\ calls[1] = Call("get", "userPool", "tId1", {"id"})
  /\ calls[2] = Call("delete", "userPool", "tId1", {"id"})

\* the inline POST /posts handler has resolved the caller of a request that
\* passed its validation (content present, authMode absent or a member of
\* the enum) and carries a bearer token, under a configuration that names
\* the user pool and the client
InlinePostWithToken ==
  /\ req.kind = "postInline"
  /\ pc \notin {"idle", "begin"}
  /\ req.contentOk
  /\ req.authMode \in {Null, ""} \cup allowedAuthModes
  /\ TokenOf(req) # Null
  /\ getCognitoConfig(config) = NoErr

\* C27: in the inline POST /posts handler a bearer token that is present
\* is always handed to the verifiers, for every requested mode, including
\* identityPool, iam and apiKey.  When it verifies with a subject the
\* resolved mode is userPool and the create is made as userPool with the
\* token; when both verifiers refuse it the response is 401 and nothing is
\* created, even when an anonymous mode was requested.  (A verified token
\* without a subject is refused with 401 as well.)
C27_InlinePostAlwaysVerifies ==
  InlinePostWithToken =>
    /\ auth.attempts # <<>>
    /\ IF Verifies(TokenOf(req)) /\ PayloadSub(TokenOf(req)) \in Subjects
       THEN /\ auth.err = NoErr
            /\ auth.authMode = "userPool"
            /\ auth.authToken = TokenOf(req)
            /\ auth.userSub = PayloadSub(TokenOf(req))
            /\ \A i \in DOMAIN calls :
                 calls[i].authMode = "userPool" /\ calls[i].authToken = TokenOf(req)
       ELSE /\ pc = "done"
            /\ response.statusCode = 401
            /\ calls = <<>>
            /\ ~Verifies(TokenOf(req)) =>
                 /\ auth.attempts = <<"access", "id">>
                 /\ response = Err(401, <<"Invalid or expired token">>)

\* a refused token sent with authMode apiKey: both verifiers were tried,
\* 401, nothing created
C27_Witness ==
  /\ InlinePostWithToken
  /\ req.authMode = "apiKey"
  /\ TokenOf(req) = "tExpired"
  /\ auth.attempts = <<"access", "id">>
  /\ response = Err(401, <<"Invalid or expired token">>)
  /\ calls = <<>>

\* what a resolution of the caller comes to: the status of the error
\* thrown, or the downstream mode and the token passed to the store
ResolutionOutcome(a) ==
  IF a.err # NoErr
  THEN [status |-> a.err.statusCode, mode |-> Null, token |-> Null]
  ELSE [status |-> 0, mode |-> a.amplifyAuthMode,
        token |-> IF a.amplifyAuthMode = "userPool" /\ Truthy(a.authToken)
                  THEN a.authToken ELSE Null]

\* the GET /posts handler that maps identityPool to iam has resolved the
\* caller of the request
GetResolved == req.kind = "getMapped" /\ pc \notin {"idle", "begin"}

\* resolveServerAuth on the request, not requiring a token, with default
\* mode identityPool
AsResolveServerAuth ==
  resolveServerAuth(req.header, req.authMode, FALSE, "identityPool", config)

\* userPool is requested, no token is sent and the configuration lacks the
\* user pool or the client
UserPoolUnconfiguredNoToken ==
  /\ req.authMode = "userPool"
  /\ TokenOf(req) = Null
  /\ getCognitoConfig(config) # NoErr

\* C28 as stated: for every requested mode, token state and configuration
\* the inline resolution of the GET /posts handler comes to the same
\* outcome as resolveServerAuth with requireToken false and default mode
\* identityPool.
C28_SameAsResolveServerAuth ==
  GetResolved => ResolutionOutcome(auth) = ResolutionOutcome(AsResolveServerAuth)

\* C28: the inline resolution of the GET /posts handler comes to the same
\* outcome (error status, or downstream mode and token passed to the
\* store) as resolveServerAuth with requireToken false and default mode
\* identityPool, for every requested mode, token state and configuration
\* but one: when userPool is requested without a token under an incomplete
\* configuration the handler answers 500 and resolveServerAuth 401.
C28_SameButUnconfiguredUserPool ==
  GetResolved =>
    IF UserPoolUnconfiguredNoToken
    THEN /\ ResolutionOutcome(auth).status = 500
         /\ ResolutionOutcome(AsResolveServerAuth).status = 401
    ELSE ResolutionOutcome(auth) = ResolutionOutcome(AsResolveServerAuth)

\* identityPool requested with a valid token: neither resolution verifies
\* it, both go to the store as iam without token
C28_Witness ==
  /\ GetResolved
  /\ req.authMode = "identityPool"
  /\ TokenOf(req) = "tAcc1"
  /\ ResolutionOutcome(auth) = [status |-> 0, mode |-> "iam", token |-> Null]
  /\ ResolutionOutcome(AsResolveServerAuth) = ResolutionOutcome(auth)
  /\ calls # <<>>

\* the handlers that pass the store's responses through collectErrors
CollectErrorsKinds == HandlerKinds \ {"putAppSync"}

\* a response of the store whose errors list is non-empty
AnsweredWithErrors(o) ==
  /\ o.kind = "resp"
  /\ o.errors.some
  /\ Len(o.errors.val) > 0

\* C29: in every handler that uses collectErrors, a store response whose
\* errors list is non-empty never ends in a success response, whatever the
\* messages of the entries are (missing and empty ones included) and
\* whether or not data is present: the handler ends with an error status.
C29_ErrorsNeverSucceed ==
  (/\ req.kind \in CollectErrorsKinds
   /\ pc = "done"
   /\ \E i \in DOMAIN answers : AnsweredWithErrors(answers[i]))
    => response.statusCode >= 400

\* login() has resolved after a successful sign-in
LoggedIn ==
  /\ tasks.login.pc = "resolved"
  /\ tasks.login.result = "signedIn"

\* C30: after login() has resolved with a successful sign-in, identityId
\* holds the identity of a session fetched by a forced refresh that was
\* started after the sign-in completed, under any interleaving with the
\* initial loadIdentity() of useAuth().  (Stated for the moments at which
\* no load is in flight any more.)
C30_IdentityOfTheSignedInSession ==
  (LoggedIn /\ ~identityLoading) =>
    /\ identityFrom = Fetch(TRUE, TRUE)
    /\ identityId \in {Null, IdentityOf(session)}

====
